---- MODULE Spec2Model ----
(***************************************************************************)
(* A model of the SVG -> vector-drawable converter (src/android/script).   *)
(*                                                                         *)
(* The conversion run of parse_svg_to_xml is a sequential state machine:   *)
(* pc is the position in parse()/parse_svg_to_xml(), the other variables   *)
(* are the fields of SvgTree, the node objects it owns (an arena, nodes),  *)
(* the part of the DOM the traversal has read (doc), the recursion stack   *)
(* of traverse_svg_and_extract, the caller's output sink and the returned  *)
(* diagnostic string.  An uncaught Python exception ends the run in        *)
(* pc = "crashed" with crash naming the exception.                         *)
(*                                                                         *)
(* The DOM is an external collaborator and is taken to behave as a W3C DOM;*)
(* logger.debug calls are not modelled.  Attribute values that the code    *)
(* slices are sequences of one-character strings.                          *)
(***************************************************************************)
EXTENDS Integers, Sequences, FiniteSets, TLC

VARIABLES
    pc,                     \* position in parse() / parse_svg_to_xml()
    placeholder,            \* SvgTree.parse returned the "<svg/>" placeholder
    viewbox,                \* SvgTree.viewbox (<<>> is None)
    w, h,                   \* SvgTree.w, SvgTree.h
    root,                   \* SvgTree.root (0 is None, else an index of nodes)
    nodes,                  \* the SvgNode objects, in creation order
    doc,                    \* the elements below <svg> read so far, in document order
    stack,                  \* frames of traverse_svg_and_extract
    id_map,                 \* SvgTree.id_map: set of <<id, node>>, one per id
    ignored_ids,            \* SvgTree.ignored_ids
    pending_use_group_set,  \* SvgTree.pending_use_group_set
    use_order,              \* iteration order of the pending set (fixed while the set is unchanged)
    use_idx,                \* position of the pass in use_order
    log_messages,           \* SvgTree.log_messages
    has_leaf_node,          \* SvgTree.has_leaf_node
    out_stream,             \* the caller's output sink
    result,                 \* the string parse_svg_to_xml returned
    passes,                 \* history: the passes started, in order
    crash,                  \* the uncaught exception, if any
    overflow,               \* a deep copy did not fit the arena and was not recorded
    style_class_attribute_map,  \* SvgTree.style_class_attribute_map: set of <<class name, attributes>>
    style_affected_nodes,       \* SvgTree.style_affected_nodes: sequence of [name, nodes], in insertion order
    clip_path_affected_nodes,   \* SvgTree.clip_path_affected_nodes: sequence of [child, group, value], in insertion order
    call                    \* the call under study of a function of the converter: its arguments and result

vars == <<pc, placeholder, viewbox, w, h, root, nodes, doc, stack, id_map, ignored_ids,
          pending_use_group_set, use_order, use_idx, log_messages, has_leaf_node,
          out_stream, result, passes, crash, overflow, style_class_attribute_map,
          style_affected_nodes, clip_path_affected_nodes, call>>

\* The tables of the style and clip passes, and the call under study
tables == <<style_class_attribute_map, style_affected_nodes, clip_path_affected_nodes, call>>

----------------------------------------------------------------------------
(* Bounds of the model *)

MaxElems == 3       \* elements below <svg> in a document
MaxCopies == 3      \* arena slots for the nodes deep copies create
MaxLog == 3         \* messages logged through the logging API (SpecLog)

MaxNodes == 1 + MaxElems + MaxCopies

----------------------------------------------------------------------------
(* Strings that the code slices or compares character-wise *)

NoNode == 0         \* Python None where a DOM node or an SvgNode is expected
NoStr == <<>>       \* the empty string; getAttribute of a missing attribute

RECURSIVE StrOf(_)
StrOf(cs) == IF cs = <<>> THEN "" ELSE cs[1] \o StrOf(Tail(cs))

IdNames == <<"a", "b", "c", "d", "e", "f">>
IdAt(i) == <<IdNames[i]>>
MissingId == <<"z">>

----------------------------------------------------------------------------
(* The diagnostic log: svg_tree.py, LogMessage and SvgTree.log_* *)

ERROR == 1
WARNING == 2

LevelName(level) == IF level = ERROR THEN "ERROR" ELSE "WARNING"

LogMessage(level, line, message) == [level |-> level, line |-> line, message |-> message]

\* f"{level.name}{'' if line == 0 else f' @ line {line}'}: {message}"
get_formatted_message(m) ==
    LevelName(m.level)
        \o (IF m.line = 0 THEN "" ELSE " @ line " \o ToString(m.line))
        \o ": " \o m.message

\* SvgTree.get_start_line(node), called on the class: node.sourceline.  The
\* parser attaches no position to a node, so set_line_numbers stores 1.
get_start_line(node) == 1

\* self.get_start_line(node): the function is declared in the class body with
\* the single parameter node and no @staticmethod, so the bound call passes
\* (self, node) and Python raises TypeError before the body runs.
bound_get_start_line(node) == [raised |-> TRUE, value |-> get_start_line(node)]

\* log_error_line: line = 0 if node is None else self.get_start_line(node);
\* then the message is appended.
log_error_line(lg, message, node, level) ==
    LET line == IF node = NoNode THEN [raised |-> FALSE, value |-> 0]
                ELSE bound_get_start_line(node)
    IN  [raised |-> line.raised,
         exc    |-> IF line.raised THEN "TypeError" ELSE "",
         log    |-> IF line.raised THEN lg
                    ELSE Append(lg, LogMessage(level, line.value, message))]

log_error(lg, message, node) == log_error_line(lg, message, node, ERROR)

log_warning(lg, message, node) == log_error_line(lg, message, node, WARNING)

(* The message texts of the model.  They differ in their first character,  *)
(* so Python's string order on them is the order of these characters.      *)
MSG_UNSUPPORTED == "<text> is not supported"
MSG_CIRCULAR == "Circular dependency of <use> nodes: "
MSG_VIEWBOX == "Missing \"viewBox\" in <svg> element"
MSG_NO_CONTENT == "No vector content found"
MSG_NOT_FOUND == "Referenced id not found"
MSG_STROKE == "Scaling of stroke width is an approximation"
MSG_XML == "unclosed token: line 1, column 0"

\* ord() of the first character of a message
FirstChar(message) ==
    CASE message = MSG_UNSUPPORTED -> 60
      [] message = MSG_VIEWBOX -> 77
      [] message = MSG_NO_CONTENT -> 78
      [] message = MSG_NOT_FOUND -> 82
      [] message = MSG_STROKE -> 83
      [] message = MSG_XML -> 117
      [] OTHER -> 67

\* @dataclass(order=True): (level, line, message) compared as tuples.  Tuple
\* comparison looks for the first differing field and applies < to it; the
\* members of the plain Enum SvgLogLevel do not support <.
lt_raises(m1, m2) == m1.level # m2.level

lt(m1, m2) ==
    IF m1.line # m2.line THEN m1.line < m2.line
    ELSE FirstChar(m1.message) < FirstChar(m2.message)

RECURSIVE insert_sorted(_, _)
insert_sorted(s, m) ==
    IF s = <<>> THEN <<m>>
    ELSE IF lt(m, s[1]) THEN <<m>> \o s
    ELSE <<s[1]>> \o insert_sorted(Tail(s), m)

RECURSIVE sorted(_)
sorted(lg) ==
    IF lg = <<>> THEN <<>>
    ELSE insert_sorted(sorted(SubSeq(lg, 1, Len(lg) - 1)), lg[Len(lg)])

\* list.sort() of the log: any sort of a list holding both levels compares
\* an ERROR with a WARNING, and that comparison raises TypeError.
sort_raises(lg) == \E i, j \in DOMAIN lg : lt_raises(lg[i], lg[j])

RECURSIVE join_lines(_)
join_lines(lg) ==
    IF lg = <<>> THEN ""
    ELSE IF Len(lg) = 1 THEN get_formatted_message(lg[1])
    ELSE get_formatted_message(lg[1]) \o "\n" \o join_lines(Tail(lg))

\* SvgTree.get_error_message: "" for an empty log; else sorts the log in
\* place and joins the formatted messages with newlines.
get_error_message(lg) ==
    IF lg = <<>> THEN [raised |-> FALSE, exc |-> "", log |-> lg, text |-> ""]
    ELSE IF sort_raises(lg)
         THEN [raised |-> TRUE, exc |-> "TypeError", log |-> lg, text |-> ""]
         ELSE [raised |-> FALSE, exc |-> "", log |-> sorted(lg),
               text |-> join_lines(sorted(lg))]

----------------------------------------------------------------------------
(* The document: the elements below <svg> *)

\* svg2vector.py, the tags of the first branch of traverse_svg_and_extract
LeafTags == {"path", "rect", "circle", "ellipse", "polygon", "polyline", "line"}

\* svg2vector.py, unsupported_svg_nodes
unsupported_svg_nodes ==
    {"animate", "animateColor", "animateMotion", "animateTransform", "mpath", "set",
     "a", "glyph", "marker", "missing-glyph", "pattern", "switch", "symbol",
     "feBlend", "feColorMatrix", "feComponentTransfer", "feComposite",
     "feConvolveMatrix", "feDiffuseLighting", "feDisplacementMap", "feFlood",
     "feFuncA", "feFuncB", "feFuncG", "feFuncR", "feGaussianBlur", "feImage",
     "feMerge", "feMergeNode", "feMorphology", "feOffset", "feSpecularLighting",
     "feTile", "feTurbulence", "font", "font-face", "font-face-format",
     "font-face-name", "font-face-src", "font-face-uri", "hkern", "vkern", "stop",
     "ellipse", "image", "text", "feDistantLight", "fePointLight", "feSpotLight",
     "altGlyph", "altGlyphDef", "altGlyphItem", "glyphRef", "textPath", "tref",
     "tspan", "color-profile", "cursor", "filter", "foreignObject", "script", "view"}

\* An element: its tag, its id attribute, its href attribute ("#" + id),
\* bare: it has neither child nodes nor attributes, and scaled: it carries
\* transform="scale(2 3)" and stroke-width="1".
Element(tag, id, href, bare, scaled) ==
    [tag |-> tag, id |-> id, href |-> href, bare |-> bare, scaled |-> scaled]

Ref(id) == <<"#">> \o id

\* The elements the i-th element of a document is drawn from.  An element
\* that carries an id carries the id of its position, so ids are unique.
Templates(i) ==
    {Element("path", id, NoStr, FALSE, FALSE) : id \in {NoStr, IdAt(i)}}
    \cup {Element("path", NoStr, NoStr, FALSE, TRUE)}
    \cup {Element("g", IdAt(i), NoStr, FALSE, FALSE)}
    \cup {Element("text", NoStr, NoStr, TRUE, FALSE),
          Element("text", IdAt(i), NoStr, FALSE, FALSE)}
    \cup {Element("foo", IdAt(i), NoStr, FALSE, FALSE)}
    \cup {Element("use", NoStr, NoStr, FALSE, FALSE)}
    \cup {Element("use", IdAt(i), Ref(t), FALSE, FALSE) :
             t \in {IdAt(k) : k \in 1..MaxElems} \cup {MissingId}}

----------------------------------------------------------------------------
(* The node objects: svg_node.py, svg_group_node.py, svg_leaf_node.py *)

\* SvgGroupNode(svg_tree, element, name) / SvgLeafNode(svg_tree, element, name)
SvgGroupNode(elem) == [kind |-> "group", elem |-> elem, children |-> <<>>]
SvgLeafNode(elem) == [kind |-> "leaf", elem |-> elem, children |-> <<>>]

\* SvgGroupNode.add_child: self.children.append(child)
add_child(ns, group, child) ==
    [ns EXCEPT ![group].children = Append(@, child)]

RECURSIVE subtree_size(_, _)
RECURSIVE sum_sizes(_, _)
subtree_size(ns, n) == 1 + sum_sizes(ns, ns[n].children)
sum_sizes(ns, kids) ==
    IF kids = <<>> THEN 0 ELSE subtree_size(ns, kids[1]) + sum_sizes(ns, Tail(kids))

\* SvgGroupNode.deep_copy / SvgLeafNode.deep_copy: a new object of the same
\* class over the same element; copy_from then adds a deep copy of every
\* child.  The result is the arena with the copies appended and the copy.
RECURSIVE deep_copy(_, _)
RECURSIVE copy_from(_, _, _)
deep_copy(ns, n) ==
    LET new_instance == Len(ns) + 1
        ns1 == Append(ns, [kind |-> ns[n].kind, elem |-> ns[n].elem, children |-> <<>>])
    IN  [nodes |-> copy_from(ns1, new_instance, ns[n].children), copy |-> new_instance]
copy_from(ns, self, kids) ==
    IF kids = <<>> THEN ns
    ELSE LET c == deep_copy(ns, kids[1])
         IN  copy_from(add_child(c.nodes, self, c.copy), self, Tail(kids))

\* SvgTree.add_id_to_map: self.id_map[id] = svg_node
add_id_to_map(m, id, n) == {p \in m : p[1] # id} \cup {<<id, n>>}

\* SvgTree.get_svg_node_from_id: self.id_map.get(id)
get_svg_node_from_id(m, id) ==
    IF \E p \in m : p[1] = id THEN (CHOOSE p \in m : p[1] = id)[2] ELSE NoNode

\* process_id_name: registers the node under its element's id, if it has one
process_id_name(m, id, n) == IF id # NoStr THEN add_id_to_map(m, id, n) ELSE m

\* get_id_from_reference: value[1:] if value else ""
get_id_from_reference(value) == IF value # NoStr THEN Tail(value) ELSE NoStr

----------------------------------------------------------------------------
(* The run: parse() and parse_svg_to_xml() of svg2vector.py *)

\* The uncaught exception: its type, the function it left, and the message
\* that was being logged (or the exception's own text)
\* No call of a function is under study
NoCall == [op |-> "", args |-> <<>>, ret |-> <<>>]

NoCrash == [exc |-> "", site |-> "", message |-> ""]
Raise(exc, site, message) == [exc |-> exc, site |-> site, message |-> message]

\* The order of the passes with the class styles applied after the clip
\* substitution instead of before it
StageAfter_clip_first(stage) ==
    CASE stage = "extract" -> "resolve_use"
      [] stage = "resolve_use" -> "substitute_clip"
      [] stage = "substitute_clip" -> "apply_style"
      [] stage = "apply_style" -> "flatten"
      [] stage = "flatten" -> "validate"
      [] stage = "validate" -> "parsed"

\* The order of the passes in parse(): the statements after the root is set
StageAfter(stage) ==
    CASE stage = "extract" -> "resolve_use"
      [] stage = "resolve_use" -> "apply_style"
      [] stage = "apply_style" -> "substitute_clip"
      [] stage = "substitute_clip" -> "flatten"
      [] stage = "flatten" -> "validate"
      [] stage = "validate" -> "parsed"

Started(ps, pass) == IF ps # <<>> /\ ps[Len(ps)] = pass THEN ps ELSE Append(ps, pass)

Perms(S) == {f \in [1..Cardinality(S) -> S] : \A i, j \in DOMAIN f : f[i] = f[j] => i = j}

\* The attributes of the root element that parse_dimension reads: whether a
\* viewBox ("0 0 2 2") is given, and width and height (-1: not given).
RootAttrs ==
    {[viewBox |-> TRUE, width |-> d, height |-> d] : d \in {-1, 2}}
    \cup {[viewBox |-> FALSE, width |-> wd, height |-> ht] : wd \in {-1, 0, 2}, ht \in {-1, 0, 2}}

NoRootAttrs == [viewBox |-> FALSE, width |-> -1, height |-> -1]

Init ==
    /\ pc = "parse"
    /\ placeholder = FALSE
    /\ viewbox = <<>>
    /\ w = -1
    /\ h = -1
    /\ root = NoNode
    /\ nodes = <<>>
    /\ doc = <<>>
    /\ stack = <<>>
    /\ id_map = {}
    /\ ignored_ids = {}
    /\ pending_use_group_set = {}
    /\ use_order = <<>>
    /\ use_idx = 0
    /\ log_messages = <<>>
    /\ has_leaf_node = FALSE
    /\ out_stream = <<>>
    /\ result = ""
    /\ passes = <<>>
    /\ crash = NoCrash
    /\ overflow = FALSE
    /\ style_class_attribute_map = {}
    /\ style_affected_nodes = <<>>
    /\ clip_path_affected_nodes = <<>>
    /\ call = NoCall

\* parse(), lines 189-199: SvgTree.parse reads the file.  Any exception in
\* it is caught there, reported through parse_errors and logged without a
\* node, and "<svg/>" is parsed instead: the source is not well-formed, or
\* it holds a text node (set_line_numbers reads node.position, which a text
\* node does not have).  The documents read further on hold elements only.
\* Then exactly one <svg> element is required.
parse_document ==
    /\ pc = "parse"
    /\ \E well_formed \in BOOLEAN, svg_count \in {0, 1, 2} :
        /\ ~well_formed => svg_count = 1
        /\ placeholder' = ~well_formed
        /\ log_messages' = IF well_formed THEN log_messages
                           ELSE log_error(log_messages, MSG_XML, NoNode).log
        /\ IF svg_count # 1
           THEN pc' = "crashed" /\ crash' = Raise("ValueError", "parse", "Not a proper SVG file")
           ELSE pc' = "dimension" /\ crash' = crash
    /\ UNCHANGED <<viewbox, w, h, root, nodes, doc, stack, id_map, ignored_ids,
                   pending_use_group_set, use_order, use_idx, has_leaf_node,
                   out_stream, result, passes, overflow>>
    /\ UNCHANGED tables

\* SvgTree.parse_dimension on the root attributes a: w, h and viewbox are
\* read; without a viewBox but with positive w and h the viewbox is
\* (0, 0, w, h); with a viewBox and w or h missing, both come from it.
SvgTree_parse_dimension(a) ==
    LET vb == IF a.viewBox THEN <<0, 0, 2, 2>> ELSE <<>>
    IN  IF vb = <<>> /\ a.width > 0 /\ a.height > 0
        THEN [viewbox |-> <<0, 0, a.width, a.height>>, w |-> a.width, h |-> a.height]
        ELSE IF (a.width < 0 \/ a.height < 0) /\ vb # <<>>
        THEN [viewbox |-> vb, w |-> vb[3], h |-> vb[4]]
        ELSE [viewbox |-> vb, w |-> a.width, h |-> a.height]

\* The DOM node of <svg> (e = 0) or of doc[e], as passed to log_error
DomNode(e) == e + 1

\* parse(), lines 201-212: parse_dimension; without a viewBox the error is
\* logged on the root element and parse returns; else the root group is made
\* and the traversal starts.
parse_dimension ==
    /\ pc = "dimension"
    /\ \E a \in (IF placeholder THEN {NoRootAttrs} ELSE RootAttrs) :
        /\ viewbox' = SvgTree_parse_dimension(a).viewbox
        /\ w' = SvgTree_parse_dimension(a).w
        /\ h' = SvgTree_parse_dimension(a).h
        /\ IF SvgTree_parse_dimension(a).viewbox = <<>>
           THEN LET r == log_error(log_messages, MSG_VIEWBOX, DomNode(0))
                IN  /\ log_messages' = r.log
                    /\ IF r.raised
                       THEN pc' = "crashed" /\ crash' = Raise(r.exc, "parse", MSG_VIEWBOX)
                       ELSE pc' = "parsed" /\ crash' = crash
                    /\ UNCHANGED <<root, nodes, stack, passes>>
           ELSE /\ nodes' = <<SvgGroupNode(0)>>
                /\ root' = 1
                /\ stack' = <<[group |-> 1, elem |-> 0]>>
                /\ passes' = Started(passes, "extract")
                /\ pc' = "extract"
                /\ UNCHANGED <<log_messages, crash>>
    /\ UNCHANGED <<placeholder, doc, id_map, ignored_ids, pending_use_group_set,
                   use_order, use_idx, has_leaf_node, out_stream, result, overflow>>
    /\ UNCHANGED tables

\* traverse_svg_and_extract, one iteration of its loop: the next child
\* element of the element on top of the stack is read and handled.
traverse_svg_and_extract ==
    /\ pc = "extract"
    /\ ~placeholder
    /\ Len(doc) < MaxElems
    /\ \E t \in Templates(Len(doc) + 1) :
        LET frame == stack[Len(stack)]
            current_group == frame.group
            e == Len(doc) + 1
            child == Len(nodes) + 1
        IN  /\ doc' = Append(doc, [tag |-> t.tag, id |-> t.id, href |-> t.href,
                                   bare |-> t.bare, scaled |-> t.scaled,
                                   parent |-> frame.elem])
            /\ IF t.bare
               THEN \* no child nodes and no attributes: "contains no information"
                    UNCHANGED <<nodes, id_map, ignored_ids, pending_use_group_set,
                                stack, has_leaf_node, log_messages, pc, crash>>
               ELSE IF t.tag \in LeafTags
               THEN /\ nodes' = add_child(Append(nodes, SvgLeafNode(e)), current_group, child)
                    /\ id_map' = process_id_name(id_map, t.id, child)
                    /\ has_leaf_node' = TRUE
                    /\ UNCHANGED <<ignored_ids, pending_use_group_set, stack,
                                   log_messages, pc, crash>>
               ELSE IF t.tag = "g"
               THEN /\ nodes' = add_child(Append(nodes, SvgGroupNode(e)), current_group, child)
                    /\ id_map' = process_id_name(id_map, t.id, child)
                    /\ stack' = Append(stack, [group |-> child, elem |-> e])
                    /\ UNCHANGED <<ignored_ids, pending_use_group_set, has_leaf_node,
                                   log_messages, pc, crash>>
               ELSE IF t.tag = "use"
               THEN /\ nodes' = add_child(Append(nodes, SvgGroupNode(e)), current_group, child)
                    /\ id_map' = process_id_name(id_map, t.id, child)
                    /\ pending_use_group_set' = pending_use_group_set \cup {child}
                    /\ UNCHANGED <<ignored_ids, stack, has_leaf_node, log_messages, pc, crash>>
               ELSE \* any other tag
                    LET r == IF t.tag \in unsupported_svg_nodes
                             THEN log_error(log_messages, "<" \o t.tag \o "> is not supported",
                                            DomNode(e))
                             ELSE [raised |-> FALSE, exc |-> "", log |-> log_messages]
                    IN  /\ ignored_ids' = IF t.id # NoStr THEN ignored_ids \cup {t.id}
                                          ELSE ignored_ids
                        /\ log_messages' = r.log
                        /\ IF r.raised
                           THEN /\ pc' = "crashed"
                                /\ crash' = Raise(r.exc, "traverse_svg_and_extract",
                                                "<" \o t.tag \o "> is not supported")
                                /\ stack' = stack
                           ELSE /\ stack' = Append(stack, [group |-> current_group, elem |-> e])
                                /\ UNCHANGED <<pc, crash>>
                        /\ UNCHANGED <<nodes, id_map, pending_use_group_set, has_leaf_node>>
    /\ UNCHANGED <<placeholder, viewbox, w, h, root, use_order, use_idx, out_stream,
                   result, passes, overflow>>
    /\ UNCHANGED tables

\* traverse_svg_and_extract returns from the children of a nested element
traverse_return ==
    /\ pc = "extract"
    /\ Len(stack) > 1
    /\ stack' = SubSeq(stack, 1, Len(stack) - 1)
    /\ UNCHANGED <<pc, placeholder, viewbox, w, h, root, nodes, doc, id_map, ignored_ids,
                   pending_use_group_set, use_order, use_idx, log_messages, has_leaf_node,
                   out_stream, result, passes, crash, overflow>>
    /\ UNCHANGED tables

\* parse(), lines 212-215: the traversal of <svg> returns, and the pending
\* set is fetched; a Python set iterates in an order of its own, which
\* stays the same as long as the set is not changed.
traverse_done ==
    /\ pc = "extract"
    /\ Len(stack) = 1
    /\ stack' = <<>>
    /\ use_order' \in Perms(pending_use_group_set)
    /\ pc' = StageAfter("extract")
    /\ UNCHANGED <<placeholder, viewbox, w, h, root, nodes, doc, id_map, ignored_ids,
                   pending_use_group_set, use_idx, log_messages, has_leaf_node,
                   out_stream, result, passes, crash, overflow>>
    /\ UNCHANGED tables

----------------------------------------------------------------------------
(* Use resolution: parse() lines 214-221, extract_use_node, report_cycles *)

\* The href (or xlink:href) attribute as extract_use_node reads it: id_value
\* stays None when the element has no such attribute.
use_id_value(e) ==
    IF e.href = NoStr THEN [none |-> TRUE, value |-> NoStr]
    ELSE [none |-> FALSE, value |-> get_id_from_reference(e.href)]

\* extract_use_node without the test of the ignored ids: every reference
\* that is not in the id map is reported
extract_use_node_reports_ignored(ns, lg, use_group_node) ==
    LET e == doc[ns[use_group_node].elem]
        id_value == use_id_value(e)
        defined_node == IF ~id_value.none /\ id_value.value # NoStr
                        THEN get_svg_node_from_id(id_map, id_value.value)
                        ELSE NoNode
    IN  IF defined_node = NoNode
        THEN IF ~id_value.none
             THEN LET r == log_error(lg, MSG_NOT_FOUND, DomNode(ns[use_group_node].elem))
                  IN  [raised |-> r.raised, exc |-> r.exc, ret |-> TRUE, nodes |-> ns,
                       log |-> r.log, full |-> FALSE]
             ELSE [raised |-> FALSE, exc |-> "", ret |-> TRUE, nodes |-> ns, log |-> lg,
                   full |-> FALSE]
        ELSE IF defined_node \in pending_use_group_set
        THEN [raised |-> FALSE, exc |-> "", ret |-> FALSE, nodes |-> ns, log |-> lg,
              full |-> FALSE]
        ELSE IF Len(ns) + subtree_size(ns, defined_node) > MaxNodes
        THEN [raised |-> FALSE, exc |-> "", ret |-> TRUE, nodes |-> ns, log |-> lg,
              full |-> TRUE]
        ELSE LET c == deep_copy(ns, defined_node)
             IN  [raised |-> FALSE, exc |-> "", ret |-> TRUE,
                  nodes |-> add_child(c.nodes, use_group_node, c.copy), log |-> lg,
                  full |-> FALSE]

\* extract_use_node(svg_tree, use_group_node, current_node) on the tree
\* state (ns, lg): ret is the value returned; raised tells that log_error
\* raised.  A copy that does not fit the arena is not recorded (full).
extract_use_node(ns, lg, use_group_node) ==
    LET e == doc[ns[use_group_node].elem]
        id_value == use_id_value(e)
        defined_node == IF ~id_value.none /\ id_value.value # NoStr
                        THEN get_svg_node_from_id(id_map, id_value.value)
                        ELSE NoNode
    IN  IF defined_node = NoNode
        THEN IF ~id_value.none /\ id_value.value \notin ignored_ids
             THEN LET r == log_error(lg, MSG_NOT_FOUND, DomNode(ns[use_group_node].elem))
                  IN  [raised |-> r.raised, exc |-> r.exc, ret |-> TRUE, nodes |-> ns,
                       log |-> r.log, full |-> FALSE]
             ELSE [raised |-> FALSE, exc |-> "", ret |-> TRUE, nodes |-> ns, log |-> lg,
                   full |-> FALSE]
        ELSE IF defined_node \in pending_use_group_set
        THEN [raised |-> FALSE, exc |-> "", ret |-> FALSE, nodes |-> ns, log |-> lg,
              full |-> FALSE]
        ELSE IF Len(ns) + subtree_size(ns, defined_node) > MaxNodes
        THEN [raised |-> FALSE, exc |-> "", ret |-> TRUE, nodes |-> ns, log |-> lg,
              full |-> TRUE]
        ELSE LET c == deep_copy(ns, defined_node)
             IN  [raised |-> FALSE, exc |-> "", ret |-> TRUE,
                  nodes |-> add_child(c.nodes, use_group_node, c.copy), log |-> lg,
                  full |-> FALSE]

\* parse(), lines 216 and 221: the test of the while loop
use_loop_test ==
    /\ pc = "resolve_use"
    /\ passes' = Started(passes, "resolve_use")
    /\ IF pending_use_group_set = {}
       THEN pc' = StageAfter("resolve_use") /\ use_idx' = use_idx
       ELSE pc' = "use_pass" /\ use_idx' = 1
    /\ UNCHANGED <<placeholder, viewbox, w, h, root, nodes, doc, stack, id_map,
                   ignored_ids, pending_use_group_set, use_order, log_messages,
                   has_leaf_node, out_stream, result, crash, overflow>>
    /\ UNCHANGED tables

\* parse(), line 217: any(extract_use_node(...) for node in list(nodes)), one
\* call of extract_use_node.  any() stops at the first call that returns
\* True, and the loop tests the (unchanged) pending set again; when every
\* call has returned False, report_cycles is next.
extract_use_node_call ==
    /\ pc = "use_pass"
    /\ LET r == extract_use_node(nodes, log_messages, use_order[use_idx])
       IN  /\ nodes' = r.nodes
           /\ log_messages' = r.log
           /\ overflow' = (overflow \/ r.full)
           /\ IF r.raised
              THEN pc' = "crashed" /\ crash' = Raise(r.exc, "extract_use_node", MSG_NOT_FOUND) /\ use_idx' = use_idx
              ELSE /\ crash' = crash
                   /\ IF r.ret
                      THEN pc' = "resolve_use" /\ use_idx' = 0
                      ELSE IF use_idx < Len(use_order)
                      THEN pc' = "use_pass" /\ use_idx' = use_idx + 1
                      ELSE pc' = "report_cycles" /\ use_idx' = 0
    /\ UNCHANGED <<placeholder, viewbox, w, h, root, doc, stack, id_map, ignored_ids,
                   pending_use_group_set, use_order, has_leaf_node, out_stream, result,
                   passes>>
    /\ UNCHANGED tables

\* report_cycles, lines 243-254: the edges id -> target id of the pending
\* use elements that have an id and a reference, in the set's order
edges_put(edges, k, v, elem) ==
    IF \E i \in DOMAIN edges : edges[i].id = k
    THEN [i \in DOMAIN edges |->
            IF edges[i].id = k THEN [id |-> k, target |-> v, elem |-> elem] ELSE edges[i]]
    ELSE Append(edges, [id |-> k, target |-> v, elem |-> elem])

RECURSIVE build_edges(_, _, _)
build_edges(ns, order, edges) ==
    IF order = <<>> THEN edges
    ELSE LET e == doc[ns[order[1]].elem]
         IN  build_edges(ns, Tail(order),
                 IF e.id # NoStr /\ e.href # NoStr
                 THEN edges_put(edges, e.id, get_id_from_reference(e.href), ns[order[1]].elem)
                 ELSE edges)

\* edges.get(id): None (<<>> here, which is falsy like "") when id is no key
edges_get(edges, id) ==
    IF \E i \in DOMAIN edges : edges[i].id = id
    THEN (CHOOSE x \in {edges[i] : i \in DOMAIN edges} : x.id = id).target
    ELSE NoStr

\* report_cycles, lines 260-263: follow the successors from an entry until
\* an id repeats or the chain breaks
RECURSIVE walk(_, _, _, _)
walk(edges, id_node, target_id, visited) ==
    IF target_id # NoStr /\ id_node \notin visited
    THEN walk(edges, target_id, edges_get(edges, target_id), visited \cup {id_node})
    ELSE [id_node |-> id_node, target_id |-> target_id, visited |-> visited]

\* get_cycle_starting_at: the ids of the cycle joined by " -> ", each inner
\* id followed by the line of its element
RECURSIVE cycle_tail(_, _, _)
cycle_tail(id_node, start_id, edges) ==
    LET next == edges_get(edges, id_node)
    IN  IF next = start_id THEN " -> " \o StrOf(next)
        ELSE " -> " \o StrOf(next) \o " (line " \o ToString(get_start_line(next)) \o ")"
                 \o cycle_tail(next, start_id, edges)

get_cycle_starting_at(start_id, edges) == StrOf(start_id) \o cycle_tail(start_id, start_id, edges)

edges_elem(edges, id) == (CHOOSE x \in {edges[i] : i \in DOMAIN edges} : x.id = id).elem

\* report_cycles, lines 256-270: one error per cycle found, logged on the
\* element of the id the walk stopped at; the visited ids leave the edges.
RECURSIVE report_cycles_loop(_, _)
report_cycles_loop(edges, lg) ==
    IF edges = <<>> THEN [raised |-> FALSE, exc |-> "", log |-> lg, message |-> ""]
    ELSE LET wk == walk(edges, edges[1].id, edges[1].target, {})
             rest == SelectSeq(edges, LAMBDA x : x.id \notin wk.visited)
         IN  IF wk.target_id # NoStr
             THEN LET message == MSG_CIRCULAR \o get_cycle_starting_at(wk.id_node, edges)
                      r == log_error(lg, message, DomNode(edges_elem(edges, wk.id_node)))
                  IN  IF r.raised
                      THEN [raised |-> TRUE, exc |-> r.exc, log |-> r.log, message |-> message]
                      ELSE report_cycles_loop(rest, r.log)
             ELSE report_cycles_loop(rest, lg)

report_cycles(ns, lg, order) == report_cycles_loop(build_edges(ns, order, <<>>), lg)

\* parse(), lines 218-220: no call made progress; report_cycles, then break
report_cycles_call ==
    /\ pc = "report_cycles"
    /\ LET r == report_cycles(nodes, log_messages, use_order)
       IN  /\ log_messages' = r.log
           /\ IF r.raised
              THEN pc' = "crashed" /\ crash' = Raise(r.exc, "report_cycles", r.message)
              ELSE pc' = StageAfter("resolve_use") /\ crash' = crash
    /\ UNCHANGED <<placeholder, viewbox, w, h, root, nodes, doc, stack, id_map,
                   ignored_ids, pending_use_group_set, use_order, use_idx, has_leaf_node,
                   out_stream, result, passes, overflow>>
    /\ UNCHANGED tables

----------------------------------------------------------------------------
(* The later passes: parse() lines 223-239 and parse_svg_to_xml *)

\* parse(), lines 224-226: add_style_to_path for every node tagged with a
\* class.  The documents of the model declare no style class:
\* get_style_class_attr gives None and add_style_to_path does nothing.
apply_style ==
    /\ pc = "apply_style"
    /\ passes' = Started(passes, "apply_style")
    /\ pc' = StageAfter("apply_style")
    /\ UNCHANGED <<placeholder, viewbox, w, h, root, nodes, doc, stack, id_map,
                   ignored_ids, pending_use_group_set, use_order, use_idx, log_messages,
                   has_leaf_node, out_stream, result, crash, overflow>>
    /\ UNCHANGED tables

\* parse(), lines 231-233: handle_clip_path for every deferred reference.
\* The documents of the model reference no clip path or mask.
substitute_clip ==
    /\ pc = "substitute_clip"
    /\ passes' = Started(passes, "substitute_clip")
    /\ pc' = StageAfter("substitute_clip")
    /\ UNCHANGED <<placeholder, viewbox, w, h, root, nodes, doc, stack, id_map,
                   ignored_ids, pending_use_group_set, use_order, use_idx, log_messages,
                   has_leaf_node, out_stream, result, crash, overflow>>
    /\ UNCHANGED tables

\* SvgNode.parse_transform and parse_local_transform on the attributes of
\* an element: the local transform (a11, a21, a12, a22, dx, dy)
local_transform(e) ==
    IF e.scaled THEN <<2, 0, 0, 3, 0, 0>> ELSE <<1, 0, 0, 1, 0, 0>>

\* SvgLeafNode.is_scale_type and is_general_scale_type
is_scale_type(transform) == ~(transform[2] # 0 \/ transform[3] # 0)
is_general_scale_type(transform) == transform[1] # transform[4]

\* SvgLeafNode.flatten under the identity (no group of the model carries a
\* transform): TRUE when the leaf logs the stroke-width warning
leaf_flatten_warns(e) ==
    /\ is_scale_type(local_transform(e))
    /\ e.scaled
    /\ is_general_scale_type(local_transform(e))

\* SvgTree.flatten: root.flatten(identity) visits every node of the tree;
\* SvgNode.log_warning logs on the node's document element.
flatten ==
    /\ pc = "flatten"
    /\ passes' = Started(passes, "flatten")
    /\ LET warn == {n \in DOMAIN nodes : nodes[n].kind = "leaf"
                                           /\ leaf_flatten_warns(doc[nodes[n].elem])}
           r == IF warn = {} THEN [raised |-> FALSE, exc |-> "", log |-> log_messages]
                ELSE log_warning(log_messages, MSG_STROKE,
                                 DomNode(nodes[CHOOSE n \in warn : \A m \in warn : n <= m].elem))
       IN  /\ log_messages' = r.log
           /\ IF r.raised
              THEN pc' = "crashed" /\ crash' = Raise(r.exc, "flatten", MSG_STROKE)
              ELSE pc' = StageAfter("flatten") /\ crash' = crash
    /\ UNCHANGED <<placeholder, viewbox, w, h, root, nodes, doc, stack, id_map,
                   ignored_ids, pending_use_group_set, use_order, use_idx,
                   has_leaf_node, out_stream, result, overflow>>
    /\ UNCHANGED tables

\* SvgTree.validate: the nodes validate themselves (groups and leaves log
\* nothing); with an empty log and no leaf, "No vector content found".
validate ==
    /\ pc = "validate"
    /\ passes' = Started(passes, "validate")
    /\ log_messages' = IF log_messages = <<>> /\ ~has_leaf_node
                       THEN log_error(log_messages, MSG_NO_CONTENT, NoNode).log
                       ELSE log_messages
    /\ pc' = StageAfter("validate")
    /\ UNCHANGED <<placeholder, viewbox, w, h, root, nodes, doc, stack, id_map,
                   ignored_ids, pending_use_group_set, use_order, use_idx,
                   has_leaf_node, out_stream, result, crash, overflow>>
    /\ UNCHANGED tables

\* SvgTree.write_xml, lines 353-373: the header is collected in a writer
write_xml_writer ==
    <<"<vector xmlns:android=\"http://schemas.android.com/apk/res/android\"",
      "android:width=\"" \o ToString(w) \o "dp\"">>

\* The rest of write_xml, which the source file does not hold (it ends at
\* line 373): the header is completed, the tree is serialised and the
\* document is written to the stream (spec 4.8, 6).
write_xml_rest(stream, writer) ==
    stream \o writer
        \o <<"android:height=\"" \o ToString(h) \o "dp\"", "<path/>", "</vector>">>

SvgTree_write_xml(stream) ==
    IF root = NoNode THEN [raised |-> TRUE, exc |-> "ValueError", stream |-> stream]
    ELSE [raised |-> FALSE, exc |-> "", stream |-> write_xml_rest(stream, write_xml_writer)]

\* parse_svg_to_xml, lines 954-955: write_file when the tree has a leaf
write_file ==
    /\ pc = "parsed"
    /\ IF has_leaf_node
       THEN LET r == SvgTree_write_xml(out_stream)
            IN  /\ passes' = Started(passes, "serialize")
                /\ out_stream' = r.stream
                /\ IF r.raised
                   THEN pc' = "crashed" /\ crash' = Raise(r.exc, "write_xml", "SvgTree is not fully initialized")
                   ELSE pc' = "message" /\ crash' = crash
       ELSE pc' = "message" /\ UNCHANGED <<passes, out_stream, crash>>
    /\ UNCHANGED <<placeholder, viewbox, w, h, root, nodes, doc, stack, id_map,
                   ignored_ids, pending_use_group_set, use_order, use_idx, log_messages,
                   has_leaf_node, result, overflow>>
    /\ UNCHANGED tables

\* parse_svg_to_xml, line 956: return svg_tree.get_error_message()
return_error_message ==
    /\ pc = "message"
    /\ LET r == get_error_message(log_messages)
       IN  /\ log_messages' = r.log
           /\ result' = r.text
           /\ IF r.raised
              THEN pc' = "crashed" /\ crash' = Raise(r.exc, "get_error_message", "")
              ELSE pc' = "done" /\ crash' = crash
    /\ UNCHANGED <<placeholder, viewbox, w, h, root, nodes, doc, stack, id_map,
                   ignored_ids, pending_use_group_set, use_order, use_idx,
                   has_leaf_node, out_stream, passes, overflow>>
    /\ UNCHANGED tables

Next ==
    \/ parse_document
    \/ parse_dimension
    \/ traverse_svg_and_extract
    \/ traverse_return
    \/ traverse_done
    \/ use_loop_test
    \/ extract_use_node_call
    \/ report_cycles_call
    \/ apply_style
    \/ substitute_clip
    \/ flatten
    \/ validate
    \/ write_file
    \/ return_error_message

Spec == Init /\ [][Next]_vars

\* The interpreter keeps executing the run as long as a statement is left
FairSpec == Init /\ [][Next]_vars /\ WF_vars(Next)

Terminated == pc \in {"done", "crashed"}

----------------------------------------------------------------------------
(* The logging API of SvgTree on its own: a caller logs messages, with or  *)
(* without a DOM node, and asks for the report.                            *)

ApiMessages == {MSG_NO_CONTENT, MSG_NOT_FOUND, MSG_STROKE}
ApiNodes == {NoNode, DomNode(0)}

InitLog ==
    /\ pc = "api"
    /\ placeholder = FALSE
    /\ viewbox = <<>>
    /\ w = -1
    /\ h = -1
    /\ root = NoNode
    /\ nodes = <<>>
    /\ doc = <<>>
    /\ stack = <<>>
    /\ id_map = {}
    /\ ignored_ids = {}
    /\ pending_use_group_set = {}
    /\ use_order = <<>>
    /\ use_idx = 0
    /\ log_messages = <<>>
    /\ has_leaf_node = FALSE
    /\ out_stream = <<>>
    /\ result = ""
    /\ passes = <<>>
    /\ crash = NoCrash
    /\ overflow = FALSE
    /\ style_class_attribute_map = {}
    /\ style_affected_nodes = <<>>
    /\ clip_path_affected_nodes = <<>>
    /\ call = NoCall

api_unchanged ==
    UNCHANGED <<placeholder, viewbox, w, h, root, nodes, doc, stack, id_map, ignored_ids,
                pending_use_group_set, use_order, use_idx, has_leaf_node, out_stream,
                passes, overflow>>
    /\ UNCHANGED tables

\* SvgTree.log_error(message, node)
api_log_error ==
    /\ pc = "api"
    /\ Len(log_messages) < MaxLog
    /\ \E message \in ApiMessages, node \in ApiNodes :
         LET r == log_error(log_messages, message, node)
         IN  /\ log_messages' = r.log
             /\ IF r.raised
                THEN pc' = "crashed" /\ crash' = Raise(r.exc, "log_error_line", message)
                ELSE UNCHANGED <<pc, crash>>
    /\ result' = result
    /\ api_unchanged

\* SvgTree.log_warning(message, node)
api_log_warning ==
    /\ pc = "api"
    /\ Len(log_messages) < MaxLog
    /\ \E message \in ApiMessages, node \in ApiNodes :
         LET r == log_warning(log_messages, message, node)
         IN  /\ log_messages' = r.log
             /\ IF r.raised
                THEN pc' = "crashed" /\ crash' = Raise(r.exc, "log_error_line", message)
                ELSE UNCHANGED <<pc, crash>>
    /\ result' = result
    /\ api_unchanged

\* SvgTree.get_error_message()
api_get_error_message ==
    /\ pc = "api"
    /\ LET r == get_error_message(log_messages)
       IN  /\ log_messages' = r.log
           /\ result' = r.text
           /\ IF r.raised
              THEN pc' = "crashed" /\ crash' = Raise(r.exc, "get_error_message", "")
              ELSE pc' = "done" /\ crash' = crash
    /\ api_unchanged

\* SvgTree.set_has_leaf_node(True)
api_set_has_leaf_node ==
    /\ pc = "api"
    /\ ~has_leaf_node
    /\ has_leaf_node' = TRUE
    /\ UNCHANGED <<pc, placeholder, viewbox, w, h, root, nodes, doc, stack, id_map,
                   ignored_ids, pending_use_group_set, use_order, use_idx, log_messages,
                   out_stream, result, passes, crash, overflow, tables>>

\* SvgTree.validate() on a tree without root: the log and the leaf flag
\* before the call and the log after it are kept in call
api_validate ==
    /\ pc = "api"
    /\ Len(log_messages) < MaxLog
    /\ log_messages' = IF log_messages = <<>> /\ ~has_leaf_node
                       THEN log_error(log_messages, MSG_NO_CONTENT, NoNode).log
                       ELSE log_messages
    /\ call' = [op |-> "validate",
                args |-> [log_messages |-> log_messages, has_leaf_node |-> has_leaf_node],
                ret |-> log_messages']
    /\ UNCHANGED <<pc, placeholder, viewbox, w, h, root, nodes, doc, stack, id_map,
                   ignored_ids, pending_use_group_set, use_order, use_idx, has_leaf_node,
                   out_stream, result, passes, crash, overflow, style_class_attribute_map,
                   style_affected_nodes, clip_path_affected_nodes>>

NextLog ==
    \/ api_log_error
    \/ api_log_warning
    \/ api_get_error_message
    \/ api_set_has_leaf_node
    \/ api_validate

SpecLog == InitLog /\ [][NextLog]_vars

----------------------------------------------------------------------------
(* Calls of single functions of the converter.  The tree is in the state   *)
(* SvgTree.__init__ leaves it in unless the call says otherwise.           *)

tree_vars ==
    <<placeholder, viewbox, w, h, root, nodes, doc, stack, id_map, ignored_ids,
      pending_use_group_set, use_order, use_idx, log_messages, has_leaf_node, out_stream,
      result, passes, crash, overflow, style_class_attribute_map, style_affected_nodes,
      clip_path_affected_nodes>>

\* SvgTree.__init__
TreeInit ==
    /\ placeholder = FALSE
    /\ viewbox = <<>>
    /\ w = -1
    /\ h = -1
    /\ root = NoNode
    /\ nodes = <<>>
    /\ doc = <<>>
    /\ stack = <<>>
    /\ id_map = {}
    /\ ignored_ids = {}
    /\ pending_use_group_set = {}
    /\ use_order = <<>>
    /\ use_idx = 0
    /\ log_messages = <<>>
    /\ has_leaf_node = FALSE
    /\ out_stream = <<>>
    /\ result = ""
    /\ passes = <<>>
    /\ crash = NoCrash
    /\ overflow = FALSE
    /\ style_class_attribute_map = {}
    /\ style_affected_nodes = <<>>
    /\ clip_path_affected_nodes = <<>>

----------------------------------------------------------------------------
(* SvgNode.concatenate_transform *)

MaxCoef == 1        \* largest coefficient of the first transform of a call

\* The identity, as SvgNode.__init__ sets local_transform
IDENTITY == <<1, 0, 0, 1, 0, 0>>

\* concatenate_transform with the operands of the products exchanged
concatenate_transform_swapped(t1, t2) ==
    <<t2[1] * t1[1] + t2[3] * t1[2],
      t2[2] * t1[1] + t2[4] * t1[2],
      t2[1] * t1[3] + t2[3] * t1[4],
      t2[2] * t1[3] + t2[4] * t1[4],
      t2[1] * t1[5] + t2[3] * t1[6] + t2[5],
      t2[2] * t1[5] + t2[4] * t1[6] + t2[6]>>

\* SvgNode.concatenate_transform(t1, t2): t1 * t2, the tuples being
\* (a11, a21, a12, a22, dx, dy); index i of the code is index i + 1 here
concatenate_transform(t1, t2) ==
    <<t1[1] * t2[1] + t1[3] * t2[2],
      t1[2] * t2[1] + t1[4] * t2[2],
      t1[1] * t2[3] + t1[3] * t2[4],
      t1[2] * t2[3] + t1[4] * t2[4],
      t1[1] * t2[5] + t1[3] * t2[6] + t1[5],
      t1[2] * t2[5] + t1[4] * t2[6] + t1[6]>>

\* The transforms a call is made with: every matrix with coefficients in
\* -1..MaxCoef as first operand, and a scale, a translation, a rotation by
\* 90 degrees, a skew and a general matrix as second and third
Coefs == -1..MaxCoef
FirstTransforms == [1..6 -> Coefs]
OtherTransforms ==
    {IDENTITY, <<2, 0, 0, 3, 0, 0>>, <<1, 0, 0, 1, 1, -1>>, <<0, 1, -1, 0, 0, 0>>,
     <<1, 0, 2, 1, 0, 0>>, <<2, 1, -1, 3, 1, 2>>}

InitTransform ==
    /\ pc = "call"
    /\ TreeInit
    /\ \E t \in FirstTransforms, u \in OtherTransforms, v \in OtherTransforms :
         call = [op |-> "concatenate_transform", args |-> <<t, u, v>>, ret |-> <<>>]

\* The calls concatenate_transform(identity, t), (t, identity), (t, u),
\* (u, v), ((t, u), v) and (t, (u, v))
concatenate_transform_call ==
    /\ pc = "call"
    /\ call.op = "concatenate_transform"
    /\ LET t == call.args[1]
           u == call.args[2]
           v == call.args[3]
       IN  call' = [call EXCEPT !.ret =
                       [id_t |-> concatenate_transform(IDENTITY, t),
                        t_id |-> concatenate_transform(t, IDENTITY),
                        t_u |-> concatenate_transform(t, u),
                        u_t |-> concatenate_transform(u, t),
                        tu_v |-> concatenate_transform(concatenate_transform(t, u), v),
                        t_uv |-> concatenate_transform(t, concatenate_transform(u, v))]]
    /\ pc' = "returned"
    /\ UNCHANGED tree_vars

SpecTransform == InitTransform /\ [][concatenate_transform_call]_vars

----------------------------------------------------------------------------
(* Gradient stops: extract_gradient_node and extract_offset.  Numbers are  *)
(* counted in hundredths: 30 is 0.3 (written "0.3" or "30%").              *)

MaxStops == 3       \* <stop> children of a gradient

Min(a, b) == IF a < b THEN a ELSE b
Max(a, b) == IF a > b THEN a ELSE b

\* An offset attribute: the number it holds, and whether it is written as a
\* percentage; float() of offset[:-1] / 100 and of offset give the same x
offset_value(offset) == offset.number

\* extract_offset without the comparison with the previous offsets
extract_offset_clamp_only(offset, greatest_offset) ==
    Min(100, Max(offset_value(offset), 0))

\* extract_offset: x = min(1, max(x, 0)); return max(x, greatest_offset)
extract_offset(offset, greatest_offset) ==
    Max(Min(100, Max(offset_value(offset), 0)), greatest_offset)

\* format_float_value: f"{value:.6f}" without trailing zeros and point
format_float_value(x) ==
    IF x % 100 = 0 THEN ToString(x \div 100)
    ELSE IF x % 10 = 0 THEN ToString(x \div 100) \o "." \o ToString((x % 100) \div 10)
    ELSE ToString(x \div 100) \o "." \o ToString((x % 100) \div 10) \o ToString(x % 10)

\* The offset attribute of a <stop>: missing, not a number, or a number
NoOffset == [given |-> FALSE, valid |-> TRUE, percent |-> FALSE, number |-> 0]
BadOffset == [given |-> TRUE, valid |-> FALSE, percent |-> FALSE, number |-> 0]
Offsets ==
    {NoOffset, BadOffset}
    \cup {[given |-> TRUE, valid |-> TRUE, percent |-> FALSE, number |-> n] :
             n \in {-50, 0, 30, 50, 90}}
    \cup {[given |-> TRUE, valid |-> TRUE, percent |-> TRUE, number |-> n] : n \in {30, 150}}

StopLists == UNION {[1..n -> Offsets] : n \in 0..MaxStops}

InitGradient ==
    /\ pc = "call"
    /\ TreeInit
    /\ \E stops \in StopLists :
         call = [op |-> "extract_gradient_node", args |-> stops,
                 ret |-> [greatest_offset |-> 0, stops |-> <<>>]]

\* extract_gradient_node, lines 372-407: one iteration of the loop over the
\* children, on a <stop>; the stop is recorded with the formatted offset.
\* float() of a text that is no number raises ValueError, which is logged
\* on the <stop> node.
extract_gradient_stop ==
    /\ pc = "call"
    /\ call.op = "extract_gradient_node"
    /\ Len(call.ret.stops) < Len(call.args)
    /\ LET stop == call.args[Len(call.ret.stops) + 1]
           r == IF stop.given /\ ~stop.valid
                THEN log_error(log_messages, "Invalid attribute value: offset=\"x\"",
                               DomNode(Len(call.ret.stops) + 1))
                ELSE [raised |-> FALSE, exc |-> "", log |-> log_messages]
           greatest_offset == IF stop.given /\ stop.valid
                              THEN extract_offset(stop, call.ret.greatest_offset)
                              ELSE call.ret.greatest_offset
       IN  /\ log_messages' = r.log
           /\ IF r.raised
              THEN /\ pc' = "crashed"
                   /\ crash' = Raise(r.exc, "extract_gradient_node",
                                     "Invalid attribute value: offset=\"x\"")
                   /\ call' = call
              ELSE /\ call' = [call EXCEPT !.ret =
                                  [greatest_offset |-> greatest_offset,
                                   stops |-> Append(call.ret.stops,
                                                    [offset |-> greatest_offset,
                                                     text |-> format_float_value(greatest_offset)])]]
                   /\ UNCHANGED <<pc, crash>>
    /\ UNCHANGED <<placeholder, viewbox, w, h, root, nodes, doc, stack, id_map, ignored_ids,
                   pending_use_group_set, use_order, use_idx, has_leaf_node, out_stream,
                   result, passes, overflow, style_class_attribute_map,
                   style_affected_nodes, clip_path_affected_nodes>>

\* extract_gradient_node returns after the last child
extract_gradient_node_return ==
    /\ pc = "call"
    /\ call.op = "extract_gradient_node"
    /\ Len(call.ret.stops) = Len(call.args)
    /\ pc' = "returned"
    /\ UNCHANGED <<call, tree_vars>>

NextGradient == extract_gradient_stop \/ extract_gradient_node_return

SpecGradient == InitGradient /\ [][NextGradient]_vars

----------------------------------------------------------------------------
(* Nodes with their attributes: vd_attributes_map is a sequence of         *)
(* <<name, value>> in insertion order, as a Python dict keeps it.          *)

vd_has(vd, name) == \E i \in DOMAIN vd : vd[i][1] = name

\* dict.get(name); "" stands for None where only the truth value is used
vd_get(vd, name) ==
    IF vd_has(vd, name) THEN vd[CHOOSE i \in DOMAIN vd : vd[i][1] = name][2] ELSE ""

\* vd[name] = value: in place when the key exists, else at the end
vd_put(vd, name, value) ==
    IF vd_has(vd, name)
    THEN [i \in DOMAIN vd |-> IF vd[i][1] = name THEN <<name, value>> ELSE vd[i]]
    ELSE Append(vd, <<name, value>>)

\* vd.pop(name, None)
vd_pop(vd, name) == SelectSeq(vd, LAMBDA kv : kv[1] # name)

\* The numbers (in hundredths) whose text float() is applied to in the model
Numbers ==
    {0, 25, 50, 100, 200, 400, 500, 800, 1000, 1600, 2000, 3200, 5000, 6400, 10000, 12800}

\* float(text): the number whose text it is; ValueError for other texts
float_of(text) ==
    IF \E x \in Numbers : format_float_value(x) = text
    THEN [raised |-> FALSE, value |-> CHOOSE x \in Numbers : format_float_value(x) = text]
    ELSE [raised |-> TRUE, value |-> 0]

\* math.sqrt of the absolute value of a determinant that is a square
sqrt_abs(d) ==
    LET a == IF d < 0 THEN -d ELSE d
    IN  CHOOSE r \in 0..a : r * r = a

\* A node object with the fields flatten reads and writes
AttrNode(kind, local, vd, children) ==
    [kind |-> kind, children |-> children, local_transform |-> local,
     stacked_transform |-> IDENTITY, vd |-> vd]

\* SvgLeafNode.flatten(transform) on node n
SvgLeafNode_flatten(ns, lg, n, transform) ==
    LET stacked == concatenate_transform(transform, ns[n].local_transform)
        ns1 == [ns EXCEPT ![n].stacked_transform = stacked]
        stroke_width == vd_get(ns[n].vd, "stroke-width")
        width == float_of(stroke_width)
        determinant == stacked[1] * stacked[4] - stacked[2] * stacked[3]
        scaled == IF determinant # 0 THEN width.value * sqrt_abs(determinant) ELSE width.value
        ns2 == IF determinant # 0
               THEN [ns1 EXCEPT ![n].vd = vd_put(@, "stroke-width", format_float_value(scaled))]
               ELSE ns1
    IN  IF "non-scaling-stroke" # vd_get(ns[n].vd, "vector-effect") /\ is_scale_type(stacked)
           /\ stroke_width # "" /\ ~width.raised
        THEN IF is_general_scale_type(stacked)
             THEN LET r == log_warning(lg, MSG_STROKE, DomNode(n))
                  IN  [nodes |-> ns2, log |-> r.log, raised |-> r.raised, exc |-> r.exc]
             ELSE [nodes |-> ns2, log |-> lg, raised |-> FALSE, exc |-> ""]
        ELSE [nodes |-> ns1, log |-> lg, raised |-> FALSE, exc |-> ""]

\* SvgGroupNode.flatten(transform): for every child the group's stacked
\* transform is set and the child is flattened with it
RECURSIVE SvgNode_flatten(_, _, _, _)
RECURSIVE SvgGroupNode_flatten(_, _, _, _, _)
SvgGroupNode_flatten(ns, lg, self, transform, kids) ==
    IF kids = <<>> THEN [nodes |-> ns, log |-> lg, raised |-> FALSE, exc |-> ""]
    ELSE LET stacked == concatenate_transform(transform, ns[self].local_transform)
             r == SvgNode_flatten([ns EXCEPT ![self].stacked_transform = stacked], lg,
                                  kids[1], stacked)
         IN  IF r.raised THEN r
             ELSE SvgGroupNode_flatten(r.nodes, r.log, self, transform, Tail(kids))

SvgNode_flatten(ns, lg, n, transform) ==
    IF ns[n].kind = "leaf" THEN SvgLeafNode_flatten(ns, lg, n, transform)
    ELSE SvgGroupNode_flatten(ns, lg, n, transform, ns[n].children)

\* SvgTree.flatten: if self.root: self.root.flatten((1, 0, 0, 1, 0, 0))
SvgTree_flatten(ns, lg) ==
    IF root # NoNode THEN SvgNode_flatten(ns, lg, root, IDENTITY)
    ELSE [nodes |-> ns, log |-> lg, raised |-> FALSE, exc |-> ""]

MaxCalls == 2       \* calls of the operation under study on one tree

\* The local transforms of the trees: identity, scale(2), scale(1 4),
\* translate(3 4), rotate(90), scale(-1)
LocalTransforms ==
    {IDENTITY, <<2, 0, 0, 2, 0, 0>>, <<1, 0, 0, 4, 0, 0>>, <<1, 0, 0, 1, 3, 4>>,
     <<0, 1, -1, 0, 0, 0>>, <<-1, 0, 0, -1, 0, 0>>}

StrokeAttrs ==
    {<<>>, <<<<"stroke-width", "1">>>>, <<<<"stroke-width", "2px">>>>,
     <<<<"stroke", "#000000">>, <<"stroke-width", "4">>>>}

\* A tree root -> group -> leaf, as extraction builds it
InitFlatten ==
    /\ pc = "api_tree"
    /\ placeholder = FALSE
    /\ viewbox = <<0, 0, 2, 2>>
    /\ w = 2
    /\ h = 2
    /\ root = 1
    /\ \E tg \in LocalTransforms, tl \in LocalTransforms, vd \in StrokeAttrs :
         nodes = <<AttrNode("group", IDENTITY, <<>>, <<2>>),
                   AttrNode("group", tg, <<>>, <<3>>),
                   AttrNode("leaf", tl, vd, <<>>)>>
    /\ doc = <<>>
    /\ stack = <<>>
    /\ id_map = {}
    /\ ignored_ids = {}
    /\ pending_use_group_set = {}
    /\ use_order = <<>>
    /\ use_idx = 0
    /\ log_messages = <<>>
    /\ has_leaf_node = TRUE
    /\ out_stream = <<>>
    /\ result = ""
    /\ passes = <<>>
    /\ crash = NoCrash
    /\ overflow = FALSE
    /\ style_class_attribute_map = {}
    /\ style_affected_nodes = <<>>
    /\ clip_path_affected_nodes = <<>>
    /\ call = [op |-> "flatten", args |-> nodes, ret |-> <<>>]

\* svg_tree.flatten(); the nodes after each call are kept in call.ret
api_flatten ==
    /\ pc = "api_tree"
    /\ call.op = "flatten"
    /\ Len(call.ret) < MaxCalls
    /\ LET r == SvgTree_flatten(nodes, log_messages)
       IN  /\ nodes' = r.nodes
           /\ log_messages' = r.log
           /\ IF r.raised
              THEN pc' = "crashed" /\ crash' = Raise(r.exc, "flatten", MSG_STROKE) /\ call' = call
              ELSE /\ call' = [call EXCEPT !.ret = Append(@, r.nodes)]
                   /\ UNCHANGED <<pc, crash>>
    /\ UNCHANGED <<placeholder, viewbox, w, h, root, doc, stack, id_map, ignored_ids,
                   pending_use_group_set, use_order, use_idx, has_leaf_node, out_stream,
                   result, passes, overflow, style_class_attribute_map,
                   style_affected_nodes, clip_path_affected_nodes>>

SpecFlatten == InitFlatten /\ [][api_flatten]_vars

----------------------------------------------------------------------------
(* Serialization of a leaf: SvgLeafNode.write_xml.  The writer is the      *)
(* sequence of the strings written to it.                                  *)

startswith(s, prefix) ==
    Len(s) >= Len(prefix) /\ SubSeq(s, 1, Len(prefix)) = prefix

endswith(s, suffix) ==
    Len(s) >= Len(suffix) /\ SubSeq(s, Len(s) - Len(suffix) + 1, Len(s)) = suffix

presentation_names ==
    {"clip", "clip-rule", "fill", "fill-rule", "fill-opacity", "opacity", "stroke",
     "stroke-opacity", "stroke-linejoin", "stroke-linecap", "stroke-width"}

\* Svg2Vector.presentation_map.get(name); "" for None and for ""
presentation_map(name) ==
    CASE name = "clip" -> "android:clip"
      [] name = "fill" -> "android:fillColor"
      [] name = "fill-rule" -> "android:fillType"
      [] name = "fill-opacity" -> "android:fillAlpha"
      [] name = "stroke" -> "android:strokeColor"
      [] name = "stroke-opacity" -> "android:strokeAlpha"
      [] name = "stroke-linejoin" -> "android:strokeLineJoin"
      [] name = "stroke-linecap" -> "android:strokeLineCap"
      [] name = "stroke-width" -> "android:strokeWidth"
      [] OTHER -> ""

INDENT_UNIT == "  "
CONTINUATION_INDENT == INDENT_UNIT \o INDENT_UNIT

\* SvgColor.color_svg_to_vd: the hex colour of a colour value, "" (None)
\* when the value is not a colour
SvgColor_color_svg_to_vd(svg_color) ==
    IF svg_color = "none" THEN "#00000000"
    ELSE IF startswith(svg_color, "#") THEN svg_color
    ELSE ""

\* A leaf with the fields write_xml reads and writes; "" stands for None
PathNode(path_data, vd) ==
    [kind |-> "leaf", children |-> <<>>, path_data |-> path_data, vd |-> vd,
     fill_gradient_node |-> "", stroke_gradient_node |-> ""]

\* SvgGradientNode.deep_copy, set_svg_leaf_node, set_gradient_usage: the
\* copy of the gradient registered under the id, tagged with its usage
SvgGradientNode_deep_copy(id, usage) == id \o ":" \o usage

\* SvgGradientNode.write_xml
SvgGradientNode_write_xml(gradient) == <<"<aapt:attr gradient ", gradient, ">">>

\* get_opacity_value_from_map, in hundredths
get_opacity_value_from_map(vd, attribute_name) ==
    LET opacity == vd_get(vd, attribute_name)
        f == IF endswith(opacity, "%")
             THEN float_of(SubSeq(opacity, 1, Len(opacity) - 1))
             ELSE float_of(opacity)
        value == IF ~vd_has(vd, attribute_name) \/ f.raised THEN 100
                  ELSE IF endswith(opacity, "%") THEN f.value \div 100 ELSE f.value
    IN  Min(Max(value, 0), 100)

put_opacity_value_to_map(vd, attribute_name, opacity) ==
    CHOOSE put \in
        {IF attribute_value = "1" THEN vd_pop(vd, attribute_name)
         ELSE vd_put(vd, attribute_name, attribute_value) :
            attribute_value \in {format_float_value(opacity)}} : TRUE

\* (each value is bound as the element of a one-element set, so that it is
\* computed once)
parse_path_opacity(vd) ==
    CHOOSE popped \in
        {vd_pop(vd2, "opacity") :
            vd2 \in {put_opacity_value_to_map(vd1, "stroke-opacity", stroke_opacity) :
                vd1 \in {put_opacity_value_to_map(vd, "fill-opacity", fill_opacity) :
                            fill_opacity \in
                                {(get_opacity_value_from_map(vd, "fill-opacity") * opacity)
                                     \div 100 :
                                 opacity \in {get_opacity_value_from_map(vd, "opacity")}}},
                stroke_opacity \in
                    {(get_opacity_value_from_map(vd, "stroke-opacity") * opacity) \div 100 :
                     opacity \in {get_opacity_value_from_map(vd, "opacity")}}}} : TRUE

\* The value of an attribute is a reference url(#id)
is_url(svg_value) ==
    /\ SvgColor_color_svg_to_vd(svg_value) = ""
    /\ ~endswith(svg_value, "px")
    /\ startswith(svg_value, "url(#") /\ endswith(svg_value, ")")

\* What one round of the loop of write_attribute_values writes for an item
\* of the attribute map: nothing for a name without target attribute and
\* for a reference, else the attribute with the converted value
attribute_text(name, svg_value) ==
    LET attribute == presentation_map(name)
        colour == SvgColor_color_svg_to_vd(svg_value)
        vd_value == IF colour # "" THEN colour
                    ELSE IF endswith(svg_value, "px")
                         THEN SubSeq(svg_value, 1, Len(svg_value) - 2)
                         ELSE svg_value
    IN  IF attribute = "" \/ is_url(svg_value) THEN <<>>
        ELSE <<"\n", INDENT_UNIT, CONTINUATION_INDENT, attribute, "=\"", vd_value, "\"">>

\* The gradient node that the loop stores for the fill or the stroke: a copy
\* of the node registered under the id of the reference, else the old one
gradient_node_of(vd, name, usage, ids, old) ==
    LET svg_value == vd_get(vd, name)
        id == SubSeq(svg_value, 6, Len(svg_value) - 1)
    IN  IF vd_has(vd, name) /\ is_url(svg_value) /\ id \in ids
        THEN SvgGradientNode_deep_copy(id, usage)
        ELSE old

RECURSIVE concat_all(_)
concat_all(pieces) ==
    IF pieces = <<>> THEN <<>> ELSE pieces[1] \o concat_all(Tail(pieces))

\* write_attribute_values: parse_path_opacity, then the loop over the
\* attribute map in its order
write_attribute_values(node, ids, out) ==
    CHOOSE written \in
        {[node |-> [node EXCEPT
                       !.vd = vd,
                       !.fill_gradient_node = gradient_node_of(vd, "fill", "FILL", ids, @),
                       !.stroke_gradient_node =
                           gradient_node_of(vd, "stroke", "STROKE", ids, @)],
          out |-> out \o concat_all([i \in DOMAIN vd |->
                                        attribute_text(vd[i][1], vd[i][2])])] :
            vd \in {parse_path_opacity(node.vd)}} : TRUE

has_gradient(node) == node.fill_gradient_node # "" \/ node.stroke_gradient_node # ""

\* str.strip() is empty: the path data is white space only
is_blank(s) == \A i \in 1..Len(s) : SubSeq(s, i, i) = " "

\* SvgLeafNode.write_xml with the default fill kept for leaves without a stroke
SvgLeafNode_write_xml_unless_stroked(node, ids, writer) ==
    LET fill_color == vd_get(node.vd, "fill")
        stroke_color == vd_get(node.vd, "stroke")
        empty_fill == fill_color = "none" \/ fill_color = "#00000000"
        empty_stroke == ~vd_has(node.vd, "stroke") \/ stroke_color = "none"
        out1 == writer \o <<INDENT_UNIT, "<path", "\n">>
        out2 == IF ~vd_has(node.vd, "fill") /\ node.fill_gradient_node = ""
                   /\ ~vd_has(node.vd, "stroke")
                THEN out1 \o <<INDENT_UNIT, CONTINUATION_INDENT, "android:fillColor=\"#FF000000\"", "\n">>
                ELSE out1
        out3 == IF ~empty_stroke /\ ~vd_has(node.vd, "stroke-width")
                   /\ node.stroke_gradient_node = ""
                THEN out2 \o <<INDENT_UNIT, CONTINUATION_INDENT, "android:strokeWidth=\"1\"", "\n">>
                ELSE out2
        out4 == out3 \o <<INDENT_UNIT, CONTINUATION_INDENT,
                          "android:pathData=\"" \o node.path_data \o "\"">>
        written == {[node |-> r.node,
                     out |-> r.out
                         \o (IF has_gradient(r.node) THEN <<>> ELSE <<"/">>) \o <<">", "\n">>
                         \o (IF r.node.fill_gradient_node # ""
                             THEN SvgGradientNode_write_xml(r.node.fill_gradient_node)
                             ELSE <<>>)
                         \o (IF r.node.stroke_gradient_node # ""
                             THEN SvgGradientNode_write_xml(r.node.stroke_gradient_node)
                             ELSE <<>>)
                         \o (IF has_gradient(r.node) THEN <<INDENT_UNIT, "</path>", "\n">>
                             ELSE <<>>)] :
                       r \in {write_attribute_values(node, ids, out4)}}
    IN  IF node.path_data = "" \/ is_blank(node.path_data) THEN [node |-> node, out |-> writer]
        ELSE IF empty_fill /\ empty_stroke THEN [node |-> node, out |-> writer]
        ELSE CHOOSE res \in written : TRUE

\* SvgLeafNode.write_xml(writer, indent): the node afterwards and the writer
SvgLeafNode_write_xml(node, ids, writer) ==
    LET fill_color == vd_get(node.vd, "fill")
        stroke_color == vd_get(node.vd, "stroke")
        empty_fill == fill_color = "none" \/ fill_color = "#00000000"
        empty_stroke == ~vd_has(node.vd, "stroke") \/ stroke_color = "none"
        out1 == writer \o <<INDENT_UNIT, "<path", "\n">>
        out2 == IF ~vd_has(node.vd, "fill") /\ node.fill_gradient_node = ""
                THEN out1 \o <<INDENT_UNIT, CONTINUATION_INDENT, "android:fillColor=\"#FF000000\"", "\n">>
                ELSE out1
        out3 == IF ~empty_stroke /\ ~vd_has(node.vd, "stroke-width")
                   /\ node.stroke_gradient_node = ""
                THEN out2 \o <<INDENT_UNIT, CONTINUATION_INDENT, "android:strokeWidth=\"1\"", "\n">>
                ELSE out2
        out4 == out3 \o <<INDENT_UNIT, CONTINUATION_INDENT,
                          "android:pathData=\"" \o node.path_data \o "\"">>
        written == {[node |-> r.node,
                     out |-> r.out
                         \o (IF has_gradient(r.node) THEN <<>> ELSE <<"/">>) \o <<">", "\n">>
                         \o (IF r.node.fill_gradient_node # ""
                             THEN SvgGradientNode_write_xml(r.node.fill_gradient_node)
                             ELSE <<>>)
                         \o (IF r.node.stroke_gradient_node # ""
                             THEN SvgGradientNode_write_xml(r.node.stroke_gradient_node)
                             ELSE <<>>)
                         \o (IF has_gradient(r.node) THEN <<INDENT_UNIT, "</path>", "\n">>
                             ELSE <<>>)] :
                       r \in {write_attribute_values(node, ids, out4)}}
    IN  IF node.path_data = "" \/ is_blank(node.path_data) THEN [node |-> node, out |-> writer]
        ELSE IF empty_fill /\ empty_stroke THEN [node |-> node, out |-> writer]
        ELSE CHOOSE res \in written : TRUE

\* SvgGroupNode.write_xml: every child in order
RECURSIVE SvgGroupNode_write_xml(_, _, _, _)
SvgGroupNode_write_xml(ns, ids, writer, kids) ==
    IF kids = <<>> THEN [nodes |-> ns, out |-> writer]
    ELSE LET k == kids[1]
             r == IF ns[k].kind = "leaf"
                  THEN LET l == SvgLeafNode_write_xml(ns[k], ids, writer)
                       IN  [nodes |-> [ns EXCEPT ![k] = l.node], out |-> l.out]
                  ELSE SvgGroupNode_write_xml(ns, ids, writer, ns[k].children)
         IN  SvgGroupNode_write_xml(r.nodes, ids, r.out, Tail(kids))

GradientId == "g"

FillValues == {"", "none", "#00000000", "#FF0000", "url(#g)", "url(#h)"}
StrokeValues == {"", "none", "#00000000", "#0000FF", "url(#g)"}
WidthValues == {"", "2px"}
OpacityValues == {"", "0.5", "50%", "x"}
PathDatas == {"", " ", "M0,0L1,1"}

\* The attribute map of a leaf, in the order the attributes were filled in
AttrsOf(fill, stroke, width, opacity, fill_opacity) ==
    (IF fill = "" THEN <<>> ELSE <<<<"fill", fill>>>>)
    \o (IF stroke = "" THEN <<>> ELSE <<<<"stroke", stroke>>>>)
    \o (IF width = "" THEN <<>> ELSE <<<<"stroke-width", width>>>>)
    \o (IF opacity = "" THEN <<>> ELSE <<<<"opacity", opacity>>>>)
    \o (IF fill_opacity = "" THEN <<>> ELSE <<<<"fill-opacity", fill_opacity>>>>)

\* A flattened tree root -> leaf with a gradient registered under GradientId
InitWrite ==
    /\ pc = "api_tree"
    /\ TreeInit
    /\ \E path_data \in PathDatas, fill \in FillValues, stroke \in StrokeValues,
          width \in WidthValues, opacity \in OpacityValues, fill_opacity \in {"", "0.5"} :
         call = [op |-> "write_xml",
                 args |-> <<[kind |-> "group", children |-> <<2>>],
                            PathNode(path_data,
                                     AttrsOf(fill, stroke, width, opacity, fill_opacity))>>,
                 ret |-> <<>>]

\* root.write_xml(writer, INDENT_UNIT) on a fresh writer; call.args holds the
\* nodes, call.ret the text of every call
api_write_xml ==
    /\ pc = "api_tree"
    /\ call.op = "write_xml"
    /\ Len(call.ret) < MaxCalls
    /\ \E r \in {SvgGroupNode_write_xml(call.args, {GradientId}, <<>>,
                                        call.args[1].children)} :
          call' = [call EXCEPT !.args = r.nodes, !.ret = Append(@, r.out)]
    /\ UNCHANGED <<pc, tree_vars>>

SpecWrite == InitWrite /\ [][api_write_xml]_vars

----------------------------------------------------------------------------
(* Lowering of shapes to path data: extract_all_items_as and the           *)
(* extract_*_item functions.  Numbers are in hundredths.                   *)

\* The text of a coordinate in path data: trailing zeros and point dropped
format_number(x) == IF x < 0 THEN "-" \o format_float_value(-x) ELSE format_float_value(x)

\* PathBuilder: the text built so far; one operator per primitive
absolute_move_to(b, x, y) == b \o "M" \o format_number(x) \o "," \o format_number(y)
relative_move_to(b, x, y) == b \o "m" \o format_number(x) \o "," \o format_number(y)
absolute_line_to(b, x, y) == b \o "L" \o format_number(x) \o "," \o format_number(y)
absolute_horizontal_to(b, x) == b \o "H" \o format_number(x)
absolute_vertical_to(b, y) == b \o "V" \o format_number(y)
relative_horizontal_to(b, x) == b \o "h" \o format_number(x)
relative_vertical_to(b, y) == b \o "v" \o format_number(y)
relative_close(b) == b \o "z"
absolute_close(b) == b \o "Z"
arc_to(b, cmd, rx, ry, rotation, large_arc, sweep, x, y) ==
    b \o cmd \o format_number(rx) \o "," \o format_number(ry)
      \o "," \o (IF rotation THEN "1" ELSE "0")
      \o "," \o (IF large_arc THEN "1" ELSE "0")
      \o "," \o (IF sweep THEN "1" ELSE "0")
      \o "," \o format_number(x) \o "," \o format_number(y)
absolute_arc_to(b, rx, ry, rotation, large_arc, sweep, x, y) ==
    arc_to(b, "A", rx, ry, rotation, large_arc, sweep, x, y)
relative_arc_to(b, rx, ry, rotation, large_arc, sweep, x, y) ==
    arc_to(b, "a", rx, ry, rotation, large_arc, sweep, x, y)

NaN == 0 - 1000000  \* float('nan'), the value of a width or height never given

\* float(value) where the text may also be that of the NaN
float_or_nan(value) ==
    IF value \in {"nan", "NaN"} THEN [raised |-> FALSE, value |-> NaN] ELSE float_of(value)

\* SvgTree.parse_coordinate_or_length(value, percentage_base)
parse_coordinate_or_length(value, percentage_base) ==
    IF endswith(value, "%")
    THEN LET f == float_or_nan(SubSeq(value, 1, Len(value) - 1))
         IN  [raised |-> f.raised,
              value |-> IF f.value = NaN THEN NaN
                        ELSE (f.value * percentage_base) \div 10000]
    ELSE float_or_nan(value)

\* SvgNode.fill_presentation_attributes_internal for values that are no url
fill_presentation_attributes(vd, name, value) ==
    LET v == IF name \in {"fill-rule", "clip-rule"} /\ value = "nonzero" THEN "nonZero"
             ELSE IF name \in {"fill-rule", "clip-rule"} /\ value = "evenodd" THEN "evenOdd"
             ELSE value
        vd1 == IF name = "stroke-width" /\ v = "0" THEN vd_pop(vd, "stroke") ELSE vd
    IN  vd_put(vd1, name, v)

\* str.find(sep) + 1: the position of the first occurrence, 0 for none
find(s, sep) ==
    LET at == {i \in 1..(Len(s) - Len(sep) + 1) : SubSeq(s, i, i + Len(sep) - 1) = sep}
    IN  IF at = {} THEN 0 ELSE CHOOSE i \in at : \A k \in at : i <= k

\* str.split(sep)
RECURSIVE split(_, _)
split(s, sep) ==
    LET i == find(s, sep)
    IN  IF i = 0 THEN <<s>>
        ELSE <<SubSeq(s, 1, i - 1)>> \o split(SubSeq(s, i + Len(sep), Len(s)), sep)

\* str.strip()
RECURSIVE strip(_)
strip(s) ==
    IF s = "" THEN s
    ELSE IF SubSeq(s, 1, 1) = " " THEN strip(SubSeq(s, 2, Len(s)))
    ELSE IF SubSeq(s, Len(s), Len(s)) = " " THEN strip(SubSeq(s, 1, Len(s) - 1))
    ELSE s

\* The loop of add_style_to_path over the declarations, last one first
RECURSIVE add_style_parts(_, _, _)
add_style_parts(vd, parts, k) ==
    IF k < 1 THEN vd
    ELSE LET name_value == split(parts[k], ":")
         IN  IF Len(name_value) = 2 /\ name_value[1] # "" /\ name_value[2] # ""
                /\ strip(name_value[1]) \in presentation_names
             THEN add_style_parts(
                      fill_presentation_attributes(vd, strip(name_value[1]), strip(name_value[2])),
                      parts, k - 1)
             ELSE add_style_parts(vd, parts, k - 1)

\* add_style_to_path(path, value); value "" is None or empty
add_style_to_path(vd, value) ==
    IF value = "" THEN vd
    ELSE LET parts == split(value, ";") IN add_style_parts(vd, parts, Len(parts))

\* The plain rectangle with absolute commands
rect_item_path_absolute(x, y, width, height) ==
    absolute_close(absolute_horizontal_to(absolute_vertical_to(absolute_horizontal_to(
        absolute_move_to("", x, y), x + width), y + height), x))

\* "M x, y h width v height h -width z", then builder.relative_close()
rect_item_path(x, y, width, height) ==
    relative_close(relative_horizontal_to(relative_vertical_to(relative_horizontal_to(
        absolute_move_to("", x, y), width), height), -width))

\* The rectangle with rounded corners
round_rect_item_path(x, y, width, height, rx0, ry0) ==
    LET rx1 == IF ry0 = 0 THEN rx0 ELSE IF rx0 = 0 THEN ry0 ELSE rx0
        ry1 == IF ry0 = 0 THEN rx0 ELSE ry0
        rx == IF 2 * rx1 > width THEN width \div 2 ELSE rx1
        ry == IF 2 * ry1 > height THEN height \div 2 ELSE ry1
        b1 == absolute_move_to("", x + rx, y)
        b2 == absolute_line_to(b1, x + width - rx, y)
        b3 == absolute_arc_to(b2, rx, ry, FALSE, FALSE, TRUE, x + width, y + ry)
        b4 == absolute_line_to(b3, x + width, y + height - ry)
        b5 == absolute_arc_to(b4, rx, ry, FALSE, FALSE, TRUE, x + width - rx, y + height)
        b6 == absolute_line_to(b5, x + rx, y + height)
        b7 == absolute_arc_to(b6, rx, ry, FALSE, FALSE, TRUE, x, y + height - ry)
        b8 == absolute_line_to(b7, x, y + ry)
        b9 == absolute_arc_to(b8, rx, ry, FALSE, FALSE, TRUE, x + rx, y)
    IN  relative_close(b9)

InvalidAttribute(name, value) == "Invalid attribute value: " \o name \o "=\"" \o value \o "\""

\* The attribute loop of extract_rect_item from attribute j on.  st holds the
\* locals, the leaf's attribute map and the log; a ValueError of an
\* attribute is caught and logged with the element as node.
RECURSIVE rect_attributes_from(_, _, _, _, _)
rect_attributes_from(st, attributes, j, e, vb) ==
    IF j > Len(attributes) THEN st
    ELSE LET name == attributes[j][1]
             value == attributes[j][2]
             \* parse_x_value for x, rx, width; parse_y_value for y, ry, height
             f == parse_coordinate_or_length(
                      value, IF name \in {"x", "rx", "width"} THEN vb[3] ELSE vb[4])
             numeric == name \in {"x", "y", "rx", "ry", "width", "height"}
             logged == log_error(st.log, InvalidAttribute(name, value), DomNode(e))
         IN  IF name = "style"
             THEN rect_attributes_from(
                      [st EXCEPT !.vd = add_style_to_path(@, value),
                                 !.pure_transparent = (@ \/ find(value, "opacity:0;") # 0)],
                      attributes, j + 1, e, vb)
             ELSE IF name \in presentation_names
             THEN rect_attributes_from(
                      [st EXCEPT !.vd = fill_presentation_attributes(@, name, value)],
                      attributes, j + 1, e, vb)
             ELSE IF numeric /\ f.raised
             THEN IF logged.raised THEN [st EXCEPT !.exc = logged.exc]
                  ELSE rect_attributes_from([st EXCEPT !.log = logged.log],
                                            attributes, j + 1, e, vb)
             ELSE IF numeric
             THEN rect_attributes_from([st EXCEPT ![name] = f.value], attributes, j + 1, e, vb)
             ELSE rect_attributes_from(st, attributes, j + 1, e, vb)

\* extract_rect_item: the leaf's path data and attribute map, the log, and
\* the exception that left the function ("" for none)
extract_rect_item(lg, attributes, e, vb) ==
    LET st == rect_attributes_from(
                  [x |-> 0, y |-> 0, width |-> NaN, height |-> NaN, rx |-> 0, ry |-> 0,
                   pure_transparent |-> FALSE,
                   vd |-> <<>>, log |-> lg, exc |-> ""], attributes, 1, e, vb)
    IN  [exc |-> st.exc, log |-> st.log, vd |-> st.vd,
         path_data |->
             IF st.exc # "" \/ st.pure_transparent \/ st.x = NaN \/ st.y = NaN
                \/ st.width = NaN \/ st.height = NaN THEN ""
             ELSE IF st.rx <= 0 /\ st.ry <= 0
                  THEN rect_item_path(st.x, st.y, st.width, st.height)
                  ELSE round_rect_item_path(st.x, st.y, st.width, st.height, st.rx, st.ry)]

\* The attribute loop of extract_circle_item: float(value) is not guarded
RECURSIVE circle_attributes_from(_, _, _)
circle_attributes_from(st, attributes, j) ==
    IF j > Len(attributes) THEN st
    ELSE LET name == attributes[j][1]
             value == attributes[j][2]
             f == float_or_nan(value)
         IN  IF name = "style"
             THEN circle_attributes_from(
                      [st EXCEPT !.vd = add_style_to_path(@, value),
                                 !.pure_transparent = (@ \/ find(value, "opacity:0;") # 0)],
                      attributes, j + 1)
             ELSE IF name \in presentation_names
             THEN circle_attributes_from(
                      [st EXCEPT !.vd = fill_presentation_attributes(@, name, value)],
                      attributes, j + 1)
             ELSE IF name \in {"cx", "cy", "r"}
             THEN IF f.raised THEN [st EXCEPT !.exc = "ValueError"]
                  ELSE circle_attributes_from([st EXCEPT ![name] = f.value], attributes, j + 1)
             ELSE circle_attributes_from(st, attributes, j + 1)

\* extract_circle_item: "M cx cy m -r, 0 a r,r 0 1,1 (r * 2),0 a r,r 0 1,1 -(r * 2),0"
extract_circle_item(lg, attributes) ==
    LET st == circle_attributes_from(
                  [cx |-> 0, cy |-> 0, r |-> 0, pure_transparent |-> FALSE, vd |-> <<>>,
                   exc |-> ""], attributes, 1)
        b1 == relative_move_to(absolute_move_to("", st.cx, st.cy), -st.r, 0)
        b2 == relative_arc_to(b1, st.r, st.r, FALSE, TRUE, TRUE, 2 * st.r, 0)
        b3 == relative_arc_to(b2, st.r, st.r, FALSE, TRUE, TRUE, -2 * st.r, 0)
    IN  [exc |-> st.exc, log |-> lg, vd |-> st.vd,
         path_data |-> IF st.exc # "" \/ st.pure_transparent \/ st.cx = NaN \/ st.cy = NaN
                       THEN "" ELSE b3]

\* The attribute loop of extract_ellipse_item: float(value) is not guarded
RECURSIVE ellipse_attributes_from(_, _, _)
ellipse_attributes_from(st, attributes, j) ==
    IF j > Len(attributes) THEN st
    ELSE LET name == attributes[j][1]
             value == attributes[j][2]
             f == float_or_nan(value)
         IN  IF name = "style"
             THEN ellipse_attributes_from(
                      [st EXCEPT !.vd = add_style_to_path(@, value),
                                 !.pure_transparent = (@ \/ find(value, "opacity:0;") # 0)],
                      attributes, j + 1)
             ELSE IF name \in presentation_names
             THEN ellipse_attributes_from(
                      [st EXCEPT !.vd = fill_presentation_attributes(@, name, value)],
                      attributes, j + 1)
             ELSE IF name \in {"cx", "cy", "rx", "ry"}
             THEN IF f.raised THEN [st EXCEPT !.exc = "ValueError"]
                  ELSE ellipse_attributes_from([st EXCEPT ![name] = f.value], attributes, j + 1)
             ELSE ellipse_attributes_from(st, attributes, j + 1)

\* extract_ellipse_item: "M cx -rx, cy a rx,ry 0 1,0 (rx * 2),0 a rx,ry 0 1,0 -(rx * 2),0";
\* a comparison with the NaN is false
extract_ellipse_item(lg, attributes) ==
    LET st == ellipse_attributes_from(
                  [cx |-> 0, cy |-> 0, rx |-> 0, ry |-> 0, pure_transparent |-> FALSE,
                   vd |-> <<>>, exc |-> ""], attributes, 1)
        b1 == absolute_move_to("", st.cx - st.rx, st.cy)
        b2 == relative_arc_to(b1, st.rx, st.ry, FALSE, TRUE, FALSE, 2 * st.rx, 0)
        b3 == relative_arc_to(b2, st.rx, st.ry, FALSE, TRUE, FALSE, -2 * st.rx, 0)
    IN  [exc |-> st.exc, log |-> lg, vd |-> st.vd,
         path_data |-> IF st.exc # "" \/ st.pure_transparent \/ st.cx = NaN \/ st.cy = NaN
                          \/ st.rx = NaN \/ st.ry = NaN \/ ~(st.rx > 0 /\ st.ry > 0)
                       THEN "" ELSE relative_close(b3)]

\* An attribute list in document order; absent attributes are ""
ShapeAttrs(names, values) ==
    LET pairs == [i \in DOMAIN names |-> <<names[i], values[i]>>]
    IN  SelectSeq(pairs, LAMBDA p : p[2] # "")

\* The inline styles of the shapes
ShapeStyles == {"", "opacity:0;", "opacity:0", "fill-opacity:0;", "fill:#00FF00;opacity:0.5;"}

Rects ==
    {[tag |-> "rect",
      attributes |-> ShapeAttrs(<<"x", "width", "y", "height", "rx", "fill", "style">>,
                                <<x, width, y, height, rx, fill, style>>)] :
        x \in {"", "10", "10%", "abc", "NaN"}, width \in {"", "100", "1o"}, y \in {"", "10"},
        height \in {"", "50"}, rx \in {"", "5"}, fill \in {"", "#FF0000"},
        style \in ShapeStyles}

Circles ==
    {[tag |-> "circle",
      attributes |-> ShapeAttrs(<<"cx", "cy", "r", "fill", "style">>,
                                <<cx, cy, r, fill, style>>)] :
        cx \in {"", "50", "abc"}, cy \in {"", "50"}, r \in {"", "20", "2o", "NaN"},
        fill \in {"", "#FF0000"}, style \in ShapeStyles}

Ellipses ==
    {[tag |-> "ellipse",
      attributes |-> ShapeAttrs(<<"cx", "cy", "rx", "ry", "style">>,
                                <<cx, cy, rx, ry, style>>)] :
        cx \in {"", "50", "NaN"}, cy \in {"", "50"}, rx \in {"", "20", "NaN"},
        ry \in {"", "10"}, style \in ShapeStyles}

\* Elements without attributes are skipped by traverse_svg_and_extract
Shapes == {e \in Rects \cup Circles \cup Ellipses : e.attributes # <<>>}

ExampleRect ==
    [tag |-> "rect",
     attributes |-> <<<<"x", "10">>, <<"width", "100">>, <<"y", "10">>, <<"height", "50">>>>]

\* A document <svg viewBox="0 0 120 120"> with one shape, or a shape and a
\* following sibling
InitShapes ==
    /\ pc = "extract"
    /\ placeholder = FALSE
    /\ viewbox = <<0, 0, 12000, 12000>>
    /\ w = 12000
    /\ h = 12000
    /\ root = 1
    /\ nodes = <<>>
    /\ doc = <<>>
    /\ stack = <<>>
    /\ id_map = {}
    /\ ignored_ids = {}
    /\ pending_use_group_set = {}
    /\ use_order = <<>>
    /\ use_idx = 0
    /\ log_messages = <<>>
    /\ has_leaf_node = FALSE
    /\ out_stream = <<>>
    /\ result = ""
    /\ passes = <<>>
    /\ crash = NoCrash
    /\ overflow = FALSE
    /\ style_class_attribute_map = {}
    /\ style_affected_nodes = <<>>
    /\ clip_path_affected_nodes = <<>>
    /\ \E e \in Shapes, rest \in {<<>>, <<ExampleRect>>} :
         call = [op |-> "traverse_svg_and_extract", args |-> <<e>> \o rest, ret |-> 0]

\* The dispatch of extract_all_items_as on the tag of the element
extract_shape_item(lg, item, e, vb) ==
    IF item.tag = "rect" THEN extract_rect_item(lg, item.attributes, e, vb)
    ELSE IF item.tag = "circle" THEN extract_circle_item(lg, item.attributes)
    ELSE extract_ellipse_item(lg, item.attributes)

\* One round of the loop of traverse_svg_and_extract for a shape element:
\* the leaf is created and added, extract_all_items_as fills it in, and
\* the tree is told that it has a leaf.  call.ret counts the elements done.
extract_all_items_as ==
    /\ pc = "extract"
    /\ call.op = "traverse_svg_and_extract"
    /\ call.ret < Len(call.args)
    /\ LET e == call.ret + 1
           item == call.args[e]
           r == extract_shape_item(log_messages, item, e, viewbox)
       IN  /\ nodes' = Append(nodes, PathNode(r.path_data, r.vd))
           /\ log_messages' = r.log
           /\ IF r.exc # ""
              THEN /\ pc' = "crashed"
                   /\ crash' = Raise(r.exc, "extract_" \o item.tag \o "_item", "")
                   /\ UNCHANGED <<call, has_leaf_node>>
              ELSE /\ call' = [call EXCEPT !.ret = e]
                   /\ has_leaf_node' = TRUE
                   /\ UNCHANGED <<pc, crash>>
    /\ UNCHANGED <<placeholder, viewbox, w, h, root, doc, stack, id_map, ignored_ids,
                   pending_use_group_set, use_order, use_idx, out_stream, result, passes,
                   overflow, style_class_attribute_map, style_affected_nodes,
                   clip_path_affected_nodes>>

\* The loop is over: traverse_svg_and_extract returns
extract_return ==
    /\ pc = "extract"
    /\ call.op = "traverse_svg_and_extract"
    /\ call.ret = Len(call.args)
    /\ pc' = "extracted"
    /\ UNCHANGED <<tree_vars, call>>

NextShapes == extract_all_items_as \/ extract_return

SpecShapes == InitShapes /\ [][NextShapes]_vars

----------------------------------------------------------------------------
(* Style classes: extract_style_node, the class attribute of a leaf and    *)
(* the apply-style pass of parse.                                          *)

\* SvgTree.get_style_class_attr: "" for None
get_style_class_attr(map, classname) ==
    IF \E p \in map : p[1] = classname
    THEN (CHOOSE p \in map : p[1] = classname)[2]
    ELSE ""

\* SvgTree.add_style_class_to_tree
add_style_class_to_tree(map, class_name, attributes) ==
    {p \in map : p[1] # class_name} \cup {<<class_name, attributes>>}

\* The loop over the comma-separated class names of one rule
RECURSIVE add_class_names(_, _, _)
add_class_names(map, names, style_attr) ==
    IF names = <<>> THEN map
    ELSE LET class_name == strip(names[1])
             existing == get_style_class_attr(map, class_name)
             style_attr_temp == IF existing # "" THEN style_attr \o ";" \o existing
                                ELSE style_attr
         IN  add_class_names(add_style_class_to_tree(map, class_name, style_attr_temp),
                             Tail(names), style_attr)

BACKSLASH_BRACE == "\\{"   \* the two characters of the Python literal "\\{"

\* The loop of extract_style_node over the pieces between "}"
RECURSIVE add_classes(_, _, _)
add_classes(map, class_data, sep) ==
    IF class_data = <<>> THEN map
    ELSE LET split_class_data == split(class_data[1], sep)
         IN  IF Len(split_class_data) < 2 THEN add_classes(map, Tail(class_data), sep)
             ELSE add_classes(
                      add_class_names(map, split(strip(split_class_data[1]), ","),
                                      strip(split_class_data[2])),
                      Tail(class_data), sep)

\* extract_style_node: the class table after the style element
style_classes(map, style_data) ==
    IF style_data = "" THEN map ELSE add_classes(map, split(style_data, "}"), BACKSLASH_BRACE)

\* SvgTree.add_affected_node_to_style_class on the ordered table
add_affected_node_to_style_class(table, class_name, child) ==
    IF \E i \in DOMAIN table : table[i][1] = class_name
    THEN [i \in DOMAIN table |->
             IF table[i][1] = class_name THEN <<class_name, table[i][2] \cup {child}>>
             ELSE table[i]]
    ELSE Append(table, <<class_name, {child}>>)

\* The attribute loop of extract_path_item
RECURSIVE path_attributes_from(_, _, _, _)
path_attributes_from(st, attributes, j, child) ==
    IF j > Len(attributes) THEN st
    ELSE LET name == attributes[j][1]
             value == attributes[j][2]
         IN  IF name = "style"
             THEN path_attributes_from([st EXCEPT !.vd = add_style_to_path(@, value)],
                                       attributes, j + 1, child)
             ELSE IF name \in presentation_names
             THEN path_attributes_from(
                      [st EXCEPT !.vd = fill_presentation_attributes(@, name, value)],
                      attributes, j + 1, child)
             ELSE IF name = "d"
             THEN path_attributes_from([st EXCEPT !.path_data = value],
                                       attributes, j + 1, child)
             ELSE IF name = "class"
             THEN path_attributes_from(
                      [st EXCEPT !.table = add_affected_node_to_style_class(
                           add_affected_node_to_style_class(@, "path." \o value, child),
                           "." \o value, child)],
                      attributes, j + 1, child)
             ELSE path_attributes_from(st, attributes, j + 1, child)

\* Every node of every class gets the attributes registered for the class
RECURSIVE apply_style_classes(_, _, _)
apply_style_classes(ns, table, map) ==
    IF table = <<>> THEN ns
    ELSE apply_style_classes(
             [n \in DOMAIN ns |->
                 IF n \in table[1][2]
                 THEN [ns[n] EXCEPT !.vd = add_style_to_path(
                                               @, get_style_class_attr(map, table[1][1]))]
                 ELSE ns[n]],
             Tail(table), map)

\* The text of a <style> element
StyleDatas ==
    {"", ".cls{fill:#ff0000;}", ".cls {fill:#ff0000;stroke:#00ff00}",
     ".a,.cls{fill:#ff0000;}", ".cls{fill:#ff0000;}.cls{stroke-width:2}",
     "path{fill:#ff0000;}", ".cls\\{fill:#ff0000;}"}

\* The attributes of the <path> that follows it
StyledPaths ==
    {ShapeAttrs(<<"d", names[1], names[2]>>, <<"M0,0L1,1", values[1], values[2]>>) :
        names \in {<<"class", "fill">>, <<"fill", "class">>},
        values \in {"", "cls", "other"} \X {"", "#0000ff"}}

\* <svg><style>...</style><path .../></svg>
InitStyle ==
    /\ pc = "style"
    /\ TreeInit
    /\ \E style_data \in StyleDatas, attributes \in StyledPaths :
         call = [op |-> "apply_style",
                 args |-> [style_data |-> style_data, attributes |-> attributes],
                 ret |-> <<>>]

\* traverse_svg_and_extract at the style element
extract_style_node ==
    /\ pc = "style"
    /\ call.op = "apply_style"
    /\ style_class_attribute_map' = style_classes(style_class_attribute_map, call.args.style_data)
    /\ pc' = "path"
    /\ UNCHANGED <<placeholder, viewbox, w, h, root, nodes, doc, stack, id_map, ignored_ids,
                   pending_use_group_set, use_order, use_idx, log_messages, has_leaf_node,
                   out_stream, result, passes, crash, overflow, style_affected_nodes,
                   clip_path_affected_nodes, call>>

\* traverse_svg_and_extract at the path element: the leaf is created and
\* extract_all_items_as fills it in and files it under its tag name
extract_path_item ==
    /\ pc = "path"
    /\ call.op = "apply_style"
    /\ LET child == Len(nodes) + 1
           st == path_attributes_from(
                     [vd |-> <<>>, path_data |-> "", table |-> style_affected_nodes],
                     call.args.attributes, 1, child)
       IN  /\ nodes' = Append(nodes, PathNode(st.path_data, st.vd))
           /\ style_affected_nodes' = add_affected_node_to_style_class(st.table, "path", child)
    /\ has_leaf_node' = TRUE
    /\ pc' = "apply"
    /\ UNCHANGED <<placeholder, viewbox, w, h, root, doc, stack, id_map, ignored_ids,
                   pending_use_group_set, use_order, use_idx, log_messages, out_stream,
                   result, passes, crash, overflow, style_class_attribute_map,
                   clip_path_affected_nodes, call>>

\* parse: "Add attributes for all the style elements"
apply_style_pass ==
    /\ pc = "apply"
    /\ call.op = "apply_style"
    /\ nodes' = apply_style_classes(nodes, style_affected_nodes, style_class_attribute_map)
    /\ pc' = "styled"
    /\ UNCHANGED <<placeholder, viewbox, w, h, root, doc, stack, id_map, ignored_ids,
                   pending_use_group_set, use_order, use_idx, log_messages, has_leaf_node,
                   out_stream, result, passes, crash, overflow, style_class_attribute_map,
                   style_affected_nodes, clip_path_affected_nodes, call>>

NextStyle == extract_style_node \/ extract_path_item \/ apply_style_pass

SpecStyle == InitStyle /\ [][NextStyle]_vars

----------------------------------------------------------------------------
(* Clip paths and masks: the clip substitution of parse, handle_clip_path, *)
(* SvgClipPathNode and the validation of the tree.                         *)

MaxUseCopies == 2   \* copies the use loop adds before the model stops following it

\* A node with the fields the substitution and the validation read: the tag
\* of its element, its fill attribute ("" for none), its clip-path or mask
\* attribute, its children and, for a clip node, its affected nodes
ClipNode(kind, tag, fill, ref, children) ==
    [kind |-> kind, tag |-> tag, fill |-> fill, ref |-> ref, children |-> children,
     affected |-> <<>>]

\* SvgNode.fill_empty_attributes for the fill: the child takes the fill of
\* the parent when it has none
fill_empty_attributes(ns, child, parent) ==
    [ns EXCEPT ![child].fill = IF @ = "" THEN ns[parent].fill ELSE @]

\* add_affected_node for every node of a list
RECURSIVE add_affected_nodes(_, _, _)
add_affected_nodes(ns, self, affected) ==
    IF affected = <<>> THEN ns
    ELSE add_affected_nodes(
             fill_empty_attributes([ns EXCEPT ![self].affected = Append(@, affected[1])],
                                   affected[1], self),
             self, Tail(affected))

\* SvgLeafNode.deep_copy, SvgGroupNode.deep_copy and SvgClipPathNode.deep_copy:
\* a new object; the group's copy_from adds a deep copy of every child, the
\* clip node's copy_from then adds the affected nodes themselves
RECURSIVE SvgClipPathNode_deep_copy(_, _)
RECURSIVE SvgClipPathNode_copy_from(_, _, _)
SvgClipPathNode_deep_copy(ns, n) ==
    LET new_instance == Len(ns) + 1
        ns1 == Append(ns, [ns[n] EXCEPT !.children = <<>>, !.affected = <<>>])
        ns2 == SvgClipPathNode_copy_from(ns1, new_instance, ns[n].children)
    IN  [nodes |-> IF ns[n].kind = "clip"
                   THEN add_affected_nodes(ns2, new_instance, ns[n].affected)
                   ELSE ns2,
         copy |-> new_instance]
SvgClipPathNode_copy_from(ns, self, kids) ==
    IF kids = <<>> THEN ns
    ELSE LET c == SvgClipPathNode_deep_copy(ns, kids[1])
         IN  SvgClipPathNode_copy_from(
                 fill_empty_attributes([c.nodes EXCEPT ![self].children = Append(@, c.copy)],
                                       c.copy, self),
                 self, Tail(kids))

\* get_clip_path_name: the text between the first "#" and the next ")"
get_clip_path_name(value) ==
    LET start_pos == find(value, "#")
        rest == SubSeq(value, start_pos + 1, Len(value))
        end_pos == IF find(rest, ")") = 0 THEN Len(value) + 1 ELSE start_pos + find(rest, ")")
    IN  strip(SubSeq(value, start_pos + 1, end_pos - 1))

\* list.index(old_child) + 1, 0 when the child is not in the list
index_of(children, old_child) ==
    IF \E i \in DOMAIN children : children[i] = old_child
    THEN CHOOSE i \in DOMAIN children :
             children[i] = old_child /\ \A k \in 1..(i - 1) : children[k] # old_child
    ELSE 0

\* handle_clip_path with the definition itself put in the place of the child
handle_clip_path_no_copy(ns, ids, child, current_group, value) ==
    LET clip_node == get_svg_node_from_id(ids, get_clip_path_name(value))
        index == index_of(ns[current_group].children, child)
    IN  IF clip_node = NoNode \/ ns[clip_node].kind # "clip" THEN [nodes |-> ns, exc |-> ""]
        ELSE IF index = 0 THEN [nodes |-> ns, exc |-> "ValueError"]
        ELSE [nodes |-> add_affected_nodes(
                            [ns EXCEPT ![current_group].children[index] = clip_node],
                            clip_node, <<child>>),
              exc |-> ""]

\* handle_clip_path(svg, child, current_group, value): a deep copy of the
\* clip node replaces the child in its group and takes it as affected node
handle_clip_path(ns, ids, child, current_group, value) ==
    LET clip_node == get_svg_node_from_id(ids, get_clip_path_name(value))
        c == SvgClipPathNode_deep_copy(ns, clip_node)
        index == index_of(ns[current_group].children, child)
    IN  IF clip_node = NoNode \/ ns[clip_node].kind # "clip" THEN [nodes |-> ns, exc |-> ""]
        ELSE IF index = 0 THEN [nodes |-> c.nodes, exc |-> "ValueError"]
        ELSE [nodes |-> add_affected_nodes(
                            [c.nodes EXCEPT ![current_group].children[index] = c.copy],
                            c.copy, <<child>>),
              exc |-> ""]

\* vd_util.parse_color_value(...) == 0xFFFFFFFF on the converted colour
is_opaque_white(colour) == colour \in {"#ffffff", "#FFFFFF", "#fff", "#FFF"}

\* SvgClipPathNode.is_white_fill
is_white_fill(node) ==
    /\ node.fill # ""
    /\ SvgColor_color_svg_to_vd(node.fill) # ""
    /\ is_opaque_white(SvgColor_color_svg_to_vd(node.fill))

MSG_MASK == "Semitransparent mask cannot be represented by a vector drawable"

\* node.validate(): SvgNode.validate does nothing, SvgGroupNode.validate
\* validates the children, SvgClipPathNode.validate then checks a mask
RECURSIVE SvgNode_validate(_, _, _)
RECURSIVE validate_children(_, _, _)
SvgNode_validate(ns, lg, n) ==
    LET r == validate_children(ns, lg, ns[n].children)
    IN  IF ns[n].kind = "leaf" THEN [log |-> lg, raised |-> FALSE, exc |-> ""]
        ELSE IF r.raised \/ ns[n].kind # "clip" THEN r
        ELSE IF ns[n].tag = "mask" /\ ~is_white_fill(ns[n])
             THEN log_error(r.log, MSG_MASK, DomNode(n))
             ELSE r
validate_children(ns, lg, kids) ==
    IF kids = <<>> THEN [log |-> lg, raised |-> FALSE, exc |-> ""]
    ELSE LET r == SvgNode_validate(ns, lg, kids[1])
         IN  IF r.raised THEN r ELSE validate_children(ns, r.log, Tail(kids))

\* <clipPath> and <mask> definitions: tag and fill attribute
ClipDefs ==
    {<<"clipPath", "">>, <<"mask", "">>, <<"mask", "#ffffff">>, <<"mask", "#eeeeee">>}

ClipRef(id) == IF id = "" THEN "" ELSE "url(#" \o id \o ")"

\* The tree after extraction of
\*   <svg><K1 id="k1"><path C/></K1><K2 id="k2"><path D/></K2>
\*        <g G><path L/></g><path id="l2" L2/>[<use href="#l2"/>]</svg>
\* where C, G, L and L2 may carry a clip-path or mask attribute.  The
\* definitions K1 and K2 are in the id map only; add_child has given their
\* paths C and D the fill of the definition.
ExtractedNodes(k1, k2, c_ref, g_ref, l_ref, l2_ref, with_use) ==
    <<ClipNode("group", "svg", "", "", IF with_use THEN <<6, 8, 9>> ELSE <<6, 8>>),
      ClipNode("clip", k1[1], k1[2], "", <<3>>),
      ClipNode("leaf", "path", k1[2], ClipRef(c_ref), <<>>),
      ClipNode("clip", k2[1], k2[2], "", <<5>>),
      ClipNode("leaf", "path", k2[2], "", <<>>),
      ClipNode("group", "g", "", ClipRef(g_ref), <<7>>),
      ClipNode("leaf", "path", "", ClipRef(l_ref), <<>>),
      ClipNode("leaf", "path", "", ClipRef(l2_ref), <<>>)>>
    \o (IF with_use THEN <<ClipNode("group", "use", "", "", <<>>)>> ELSE <<>>)

\* The parent group of each node of the extracted tree
ExtractedParent == <<0, 0, 2, 0, 4, 1, 6, 1, 1>>

\* SvgTree.add_clip_path_affected_node for every node with a reference, in
\* document order
ExtractedClipRefs(ns) ==
    LET referring == SelectSeq(<<3, 6, 7, 8>>, LAMBDA n : ns[n].ref # "")
    IN  [i \in DOMAIN referring |->
            <<referring[i], ExtractedParent[referring[i]], ns[referring[i]].ref>>]

InitClip ==
    /\ \E k1 \in ClipDefs, k2 \in ClipDefs, c_ref \in {"", "k2"}, g_ref \in {"", "k1"},
          l_ref \in {"", "k1", "k2", "zz"}, l2_ref \in {"", "k1"}, with_use \in BOOLEAN :
         /\ nodes = ExtractedNodes(k1, k2, c_ref, g_ref, l_ref, l2_ref, with_use)
         /\ pending_use_group_set = IF with_use THEN {9} ELSE {}
    /\ clip_path_affected_nodes = ExtractedClipRefs(nodes)
    /\ id_map = {<<"k1", 2>>, <<"k2", 4>>, <<"l2", 8>>}
    /\ pc = "resolve_use"
    /\ placeholder = FALSE
    /\ viewbox = <<0, 0, 2, 2>>
    /\ w = 2
    /\ h = 2
    /\ root = 1
    /\ doc = <<>>
    /\ stack = <<>>
    /\ ignored_ids = {}
    /\ use_order = <<>>
    /\ use_idx = 0
    /\ log_messages = <<>>
    /\ has_leaf_node = TRUE
    /\ out_stream = <<>>
    /\ result = ""
    /\ passes = <<>>
    /\ crash = NoCrash
    /\ overflow = FALSE
    /\ style_class_attribute_map = {}
    /\ style_affected_nodes = <<>>
    /\ call = [op |-> "handle_clip_path", args |-> nodes, ret |-> 0]

\* One pass of the use loop of parse: extract_use_node on the pending use
\* group adds a deep copy of the leaf "l2" and returns True; the node stays
\* in the pending set and the loop goes on
use_loop_pass ==
    /\ pc = "resolve_use"
    /\ call.op = "handle_clip_path"
    /\ pending_use_group_set # {}
    /\ Len(nodes) < 9 + MaxUseCopies
    /\ LET use_group_node == CHOOSE n \in pending_use_group_set : TRUE
           c == SvgClipPathNode_deep_copy(nodes, get_svg_node_from_id(id_map, "l2"))
       IN  nodes' = fill_empty_attributes(
                        [c.nodes EXCEPT ![use_group_node].children = Append(@, c.copy)],
                        c.copy, use_group_node)
    /\ UNCHANGED <<pc, placeholder, viewbox, w, h, root, doc, stack, id_map, ignored_ids,
                   pending_use_group_set, use_order, use_idx, log_messages, has_leaf_node,
                   out_stream, result, passes, crash, overflow, tables>>

\* The pending set is empty: the use loop and the apply-style pass, which
\* has no class to apply, are over
use_loop_exit ==
    /\ pc = "resolve_use"
    /\ call.op = "handle_clip_path"
    /\ pending_use_group_set = {}
    /\ pc' = "substitute_clip"
    /\ UNCHANGED <<tree_vars, call>>

\* One round of the loop of parse over the clip-path affected nodes;
\* call.ret counts the entries done
handle_clip_path_entry ==
    /\ pc = "substitute_clip"
    /\ call.op = "handle_clip_path"
    /\ call.ret < Len(clip_path_affected_nodes)
    /\ LET entry == clip_path_affected_nodes[call.ret + 1]
           r == handle_clip_path(nodes, id_map, entry[1], entry[2], entry[3])
       IN  /\ nodes' = r.nodes
           /\ IF r.exc # ""
              THEN /\ pc' = "crashed"
                   /\ crash' = Raise(r.exc, "replace_child",
                                     "The child being replaced doesn't belong to this group")
                   /\ call' = call
              ELSE /\ call' = [call EXCEPT !.ret = @ + 1]
                   /\ UNCHANGED <<pc, crash>>
    /\ UNCHANGED <<placeholder, viewbox, w, h, root, doc, stack, id_map, ignored_ids,
                   pending_use_group_set, use_order, use_idx, log_messages, has_leaf_node,
                   out_stream, result, passes, overflow, style_class_attribute_map,
                   style_affected_nodes, clip_path_affected_nodes>>

\* The loop is over; svg_tree.flatten() changes no child list, affected
\* list, fill or log of these trees, which have no stroke width
clip_loop_exit ==
    /\ pc = "substitute_clip"
    /\ call.op = "handle_clip_path"
    /\ call.ret = Len(clip_path_affected_nodes)
    /\ pc' = "validate"
    /\ UNCHANGED <<tree_vars, call>>

\* svg_tree.validate()
validate_tree ==
    /\ pc = "validate"
    /\ call.op = "handle_clip_path"
    /\ LET r == SvgNode_validate(nodes, log_messages, root)
       IN  IF r.raised
           THEN /\ pc' = "crashed"
                /\ crash' = Raise(r.exc, "validate", MSG_MASK)
                /\ log_messages' = r.log
           ELSE /\ pc' = "validated"
                /\ crash' = crash
                /\ log_messages' = IF r.log = <<>> /\ ~has_leaf_node
                                   THEN log_error(r.log, MSG_NO_CONTENT, NoNode).log
                                   ELSE r.log
    /\ UNCHANGED <<placeholder, viewbox, w, h, root, nodes, doc, stack, id_map, ignored_ids,
                   pending_use_group_set, use_order, use_idx, has_leaf_node, out_stream,
                   result, passes, overflow, tables>>

NextClip ==
    \/ use_loop_pass
    \/ use_loop_exit
    \/ handle_clip_path_entry
    \/ clip_loop_exit
    \/ validate_tree

SpecClip == InitClip /\ [][NextClip]_vars

----------------------------------------------------------------------------
(* The transform attribute: SvgNode.__init__, parse_transform,             *)
(* parse_local_transform, parse_one_transform, get_numbers (svg_node.py)   *)

MATRIX_ATTRIBUTE == "matrix"
TRANSLATE_ATTRIBUTE == "translate"
ROTATE_ATTRIBUTE == "rotate"
SCALE_ATTRIBUTE == "scale"
SKEWX_ATTRIBUTE == "skewX"
SKEWY_ATTRIBUTE == "skewY"

\* str.lower()
RECURSIVE lower(_)
lower(s) ==
    IF s = "" THEN s
    ELSE LET c == SubSeq(s, 1, 1)
             upper == "ABCDEFGHIJKLMNOPQRSTUVWXYZ"
             i == find(upper, c)
         IN  (IF i = 0 THEN c ELSE SubSeq("abcdefghijklmnopqrstuvwxyz", i, i))
                 \o lower(SubSeq(s, 2, Len(s)))

\* str.replace(old, new) for a one-character old
RECURSIVE replace(_, _, _)
replace(s, old, new) ==
    IF s = "" THEN s
    ELSE (IF SubSeq(s, 1, 1) = old THEN new ELSE SubSeq(s, 1, 1))
             \o replace(SubSeq(s, 2, Len(s)), old, new)

\* re.split(r"[()]", s)
RECURSIVE re_split_parens(_)
re_split_parens(s) ==
    LET at == {i \in 1..Len(s) : SubSeq(s, i, i) \in {"(", ")"}}
    IN  IF at = {} THEN <<s>>
        ELSE LET i == CHOOSE k \in at : \A j \in at : k <= j
             IN  <<SubSeq(s, 1, i - 1)>> \o re_split_parens(SubSeq(s, i + 1, Len(s)))

\* str.split(): the words between runs of white space
split_words(s) == SelectSeq(split(s, " "), LAMBDA word : word # "")

\* float(number) for the text of a natural number; ValueError for a text
\* with another character
RECURSIVE digits_value(_, _)
digits_value(s, acc) ==
    IF s = "" THEN acc
    ELSE digits_value(SubSeq(s, 2, Len(s)), 10 * acc + (find("0123456789", SubSeq(s, 1, 1)) - 1))
float_of_digits(number) ==
    IF number # "" /\ \A i \in 1..Len(number) : find("0123456789", SubSeq(number, i, i)) # 0
    THEN [raised |-> FALSE, value |-> digits_value(number, 0)]
    ELSE [raised |-> TRUE, value |-> 0]

\* SvgNode.get_numbers(data): none stands for the result None
get_numbers(data) ==
    LET numbers == split_words(data)
        results == [i \in DOMAIN numbers |-> float_of_digits(numbers[i])]
    IN  IF numbers = <<>> \/ \E i \in DOMAIN results : results[i].raised
        THEN [none |-> TRUE, numbers |-> <<>>]
        ELSE [none |-> FALSE, numbers |-> [i \in DOMAIN results |-> results[i].value]]

\* math.cos, math.sin and math.tan of math.radians(angle), for the angles
\* whose values are integers (up to the rounding of the floats)
cos_degrees(angle) == CASE angle = 0 -> 1 [] angle = 90 -> 0 [] angle = 180 -> -1 [] angle = 270 -> 0
sin_degrees(angle) == CASE angle = 0 -> 0 [] angle = 90 -> 1 [] angle = 180 -> 0 [] angle = 270 -> -1
tan_degrees(angle) == CASE angle = 0 -> 0 [] angle = 45 -> 1

NoTransform == [raised |-> FALSE, exc |-> "", none |-> TRUE, transform |-> <<>>]
Transform(t) == [raised |-> FALSE, exc |-> "", none |-> FALSE, transform |-> t]

\* SvgNode.parse_one_transform(type, data): none stands for the result
\* None.  The matrix branch reads numLength, a name that is bound nowhere
\* (the length is kept in num_length): NameError.
parse_one_transform(type, data) ==
    LET got == get_numbers(data)
        numbers == got.numbers
        num_length == Len(numbers)
    IN  IF got.none THEN NoTransform
        ELSE IF lower(type) = MATRIX_ATTRIBUTE
        THEN [raised |-> TRUE, exc |-> "NameError", none |-> TRUE, transform |-> <<>>]
        ELSE IF lower(type) = TRANSLATE_ATTRIBUTE
        THEN IF num_length \notin {1, 2} THEN NoTransform
             ELSE Transform(<<1, 0, 0, 1, numbers[1],
                              IF num_length = 2 THEN numbers[2] ELSE 0>>)
        ELSE IF lower(type) = SCALE_ATTRIBUTE
        THEN IF num_length \notin {1, 2} THEN NoTransform
             ELSE LET scale_x == numbers[1]
                      scale_y == IF num_length = 2 THEN numbers[2] ELSE numbers[1]
                  IN  Transform(<<scale_x, 0, 0, scale_y, 0, 0>>)
        ELSE IF lower(type) = ROTATE_ATTRIBUTE
        THEN IF num_length \notin {1, 3} THEN NoTransform
             ELSE LET angle == numbers[1]
                      center_x == IF num_length = 3 THEN numbers[2] ELSE 0
                      center_y == IF num_length = 3 THEN numbers[3] ELSE 0
                      translate_to_origin == <<1, 0, 0, 1, -center_x, -center_y>>
                      rotate == <<cos_degrees(angle), sin_degrees(angle),
                                  -sin_degrees(angle), cos_degrees(angle), 0, 0>>
                      translate_back == <<1, 0, 0, 1, center_x, center_y>>
                  IN  Transform(concatenate_transform(
                          concatenate_transform(translate_to_origin, rotate), translate_back))
        ELSE IF lower(type) = SKEWX_ATTRIBUTE
        THEN IF num_length # 1 THEN NoTransform
             ELSE Transform(<<1, 0, tan_degrees(numbers[1]), 1, 0, 0>>)
        ELSE IF lower(type) = SKEWY_ATTRIBUTE
        THEN IF num_length # 1 THEN NoTransform
             ELSE Transform(<<1, tan_degrees(numbers[1]), 0, 1, 0, 0>>)
        ELSE NoTransform

\* SvgNode.parse_local_transform, the loop from index i (of the code) on:
\* local is self.local_transform; parsed keeps, for every function read,
\* its keyword, its data and whether parse_one_transform returned None
RECURSIVE parse_local_transform_from(_, _, _, _)
parse_local_transform_from(matrices, i, local, parsed) ==
    IF i >= Len(matrices) - 1
    THEN [raised |-> FALSE, exc |-> "", local_transform |-> local, parsed |-> parsed]
    ELSE LET type == strip(matrices[i + 1])
             data == strip(matrices[i + 2])
         IN  \* the result is bound once
             CHOOSE r \in
               {IF parsed_transform.raised
                THEN [raised |-> TRUE, exc |-> parsed_transform.exc, local_transform |-> local,
                      parsed |-> parsed]
                ELSE parse_local_transform_from(
                         matrices, i + 2,
                         IF parsed_transform.none THEN local
                         ELSE concatenate_transform(local, parsed_transform.transform),
                         Append(parsed, [type |-> type, data |-> data,
                                         none |-> parsed_transform.none]))
                  : parsed_transform \in {parse_one_transform(type, data)}} : TRUE

\* SvgNode.parse_local_transform(node_value)
parse_local_transform(local, node_value) ==
    parse_local_transform_from(re_split_parens(replace(node_value, ",", " ")), 0, local, <<>>)

\* The transform functions of the documents read, one of each keyword with
\* each number of arguments of interest, and the attribute values: one
\* function, or two of them in a row
TransformFunctions ==
    {"scale(2)", "scale(2,3)", "scale(1 2 3)", "translate(1)", "translate(1, 2)",
     "translate(1 2 3)", "rotate(90)", "rotate(90 1 1)", "rotate(90 1)",
     "matrix(1 0 0 1 2 3)", "matrix(1 2)", "skewX(45)", "skewY(45)", "skewX(1 2)",
     "foo(1)", "scale()", "scale(a)"}
TransformValues ==
    {""} \cup TransformFunctions
    \cup {f \o " " \o g : f \in TransformFunctions, g \in TransformFunctions}

\* A node object as SvgNode.__init__ leaves it
TransformedNode(kind, local) ==
    [kind |-> kind, children |-> <<>>, local_transform |-> local,
     stacked_transform |-> IDENTITY, vd |-> <<>>]

InitParse ==
    /\ pc = "call"
    /\ TreeInit
    /\ \E kind \in {"leaf", "group"}, node_value \in TransformValues :
         call = [op |-> "SvgNode", args |-> <<kind, node_value>>, ret |-> <<>>]

\* SvgNode.__init__ with parse_transform, for an element whose only
\* attribute is transform (an empty value stands for no attribute): the
\* node is created only when the constructor returns
SvgNode_init ==
    /\ pc = "call"
    /\ call.op = "SvgNode"
    /\ LET node_value == call.args[2]
           r == IF node_value # "" THEN parse_local_transform(IDENTITY, node_value)
                ELSE [raised |-> FALSE, exc |-> "", local_transform |-> IDENTITY,
                      parsed |-> <<>>]
       IN  \E done \in {r} :
             IF done.raised
             THEN /\ pc' = "crashed"
                  /\ crash' = Raise(done.exc, "parse_one_transform", "")
                  /\ call' = [call EXCEPT !.ret = done.parsed]
                  /\ nodes' = nodes
             ELSE /\ pc' = "returned"
                  /\ crash' = crash
                  /\ call' = [call EXCEPT !.ret = done.parsed]
                  /\ nodes' = Append(nodes, TransformedNode(call.args[1], done.local_transform))
    /\ UNCHANGED <<placeholder, viewbox, w, h, root, doc, stack, id_map, ignored_ids,
                   pending_use_group_set, use_order, use_idx, log_messages, has_leaf_node,
                   out_stream, result, passes, overflow, style_class_attribute_map,
                   style_affected_nodes, clip_path_affected_nodes>>

SpecParse == InitParse /\ [][SvgNode_init]_vars

----------------------------------------------------------------------------
(* Path data and transforms: SvgTree.flatten as parse() calls it, then     *)
(* SvgTree.normalize, transform_if_needed.  Coordinates are integers.      *)

\* The text of a signed integer, and the integer a text stands for
signed_text(x) == IF x < 0 THEN "-" \o ToString(-x) ELSE ToString(x)
signed_value(text) ==
    IF startswith(text, "-") THEN -digits_value(SubSeq(text, 2, Len(text)), 0)
    ELSE digits_value(text, 0)

\* PathParser.parse_path for path data of absolute M and L commands: the
\* list of the nodes [cmd, x, y]
RECURSIVE parse_path(_)
parse_path(value) ==
    IF value = "" THEN <<>>
    ELSE LET rest == SubSeq(value, 2, Len(value))
             at == {i \in 1..Len(rest) : SubSeq(rest, i, i) \in {"M", "L"}}
             next == IF at = {} THEN Len(rest) + 1 ELSE CHOOSE i \in at : \A k \in at : i <= k
             params == split(SubSeq(rest, 1, next - 1), ",")
         IN  <<[cmd |-> SubSeq(value, 1, 1), x |-> signed_value(params[1]),
                y |-> signed_value(params[2])]>>
                 \o parse_path(SubSeq(rest, next, Len(rest)))

\* VdPath.Node.node_list_to_string
RECURSIVE node_list_to_string(_)
node_list_to_string(path_nodes) ==
    IF path_nodes = <<>> THEN ""
    ELSE path_nodes[1].cmd \o signed_text(path_nodes[1].x) \o "," \o signed_text(path_nodes[1].y)
             \o node_list_to_string(Tail(path_nodes))

\* VdPath.Node.transform(transform, nodes): every point is mapped by the
\* transform (a11 x + a12 y + dx, a21 x + a22 y + dy)
VdPath_transform(t, path_nodes) ==
    [i \in DOMAIN path_nodes |->
        [cmd |-> path_nodes[i].cmd,
         x |-> t[1] * path_nodes[i].x + t[3] * path_nodes[i].y + t[5],
         y |-> t[2] * path_nodes[i].x + t[4] * path_nodes[i].y + t[6]]]

\* A node object with the fields flatten and transform_if_needed use
DrawnNode(kind, local, path_data, children) ==
    [kind |-> kind, children |-> children, local_transform |-> local,
     stacked_transform |-> IDENTITY, vd |-> <<>>, path_data |-> path_data]

\* SvgLeafNode.transform_if_needed with the stacked transform left out
SvgLeafNode_transform_if_needed_root_only(ns, n, root_transform) ==
    IF ns[n].path_data = "" THEN ns
    ELSE LET path_nodes == parse_path(ns[n].path_data)
             final_transform == root_transform
         IN  [ns EXCEPT ![n].path_data =
                 node_list_to_string(IF final_transform # IDENTITY
                                     THEN VdPath_transform(final_transform, path_nodes)
                                     ELSE path_nodes)]

\* SvgLeafNode.transform_if_needed(root_transform); a path of absolute
\* commands has no relative move after a close
SvgLeafNode_transform_if_needed(ns, n, root_transform) ==
    IF ns[n].path_data = "" THEN ns
    ELSE LET path_nodes == parse_path(ns[n].path_data)
             final_transform == concatenate_transform(root_transform, ns[n].stacked_transform)
         IN  [ns EXCEPT ![n].path_data =
                 node_list_to_string(IF final_transform # IDENTITY
                                     THEN VdPath_transform(final_transform, path_nodes)
                                     ELSE path_nodes)]

\* SvgGroupNode.transform_if_needed: for child in self.children
RECURSIVE SvgGroupNode_transform_if_needed(_, _, _)
SvgGroupNode_transform_if_needed(ns, root_transform, kids) ==
    IF kids = <<>> THEN ns
    ELSE LET child == kids[1]
             ns1 == IF ns[child].kind = "leaf"
                    THEN SvgLeafNode_transform_if_needed(ns, child, root_transform)
                    ELSE SvgGroupNode_transform_if_needed(ns, root_transform,
                                                          ns[child].children)
         IN  SvgGroupNode_transform_if_needed(ns1, root_transform, Tail(kids))

\* SvgTree.normalize with SvgTree.transform
SvgTree_normalize(ns) ==
    IF viewbox # <<>>
    THEN LET tx == -viewbox[1]
             ty == -viewbox[2]
             root_transform == <<1, 0, 0, 1, tx, ty>>
         IN  IF root # NoNode
             THEN SvgGroupNode_transform_if_needed(ns, root_transform, ns[root].children)
             ELSE ns
    ELSE ns

\* The points of the paths (move to the first, lines to the others), and
\* the path data that names them
PathPoints == {<<>>, <<<<1, 2>>, <<3, 4>>>>, <<<<0, 0>>, <<2, 1>>, <<0, 3>>>>}
path_data_of(points) ==
    node_list_to_string([i \in DOMAIN points |->
                            [cmd |-> IF i = 1 THEN "M" ELSE "L",
                             x |-> points[i][1], y |-> points[i][2]]])

\* A tree root -> group -> leaf as extraction leaves it, the flatten pass
\* of parse() being next
InitBake ==
    /\ pc = "flatten_pass"
    /\ placeholder = FALSE
    /\ viewbox \in {<<0, 0, 12, 12>>, <<1, 2, 12, 12>>}
    /\ w = 12
    /\ h = 12
    /\ root = 1
    /\ \E tg \in LocalTransforms, tl \in LocalTransforms, points \in PathPoints :
         /\ nodes = <<DrawnNode("group", IDENTITY, "", <<2>>),
                      DrawnNode("group", tg, "", <<3>>),
                      DrawnNode("leaf", tl, path_data_of(points), <<>>)>>
         /\ call = [op |-> "normalize", args |-> points, ret |-> <<>>]
    /\ doc = <<>>
    /\ stack = <<>>
    /\ id_map = {}
    /\ ignored_ids = {}
    /\ pending_use_group_set = {}
    /\ use_order = <<>>
    /\ use_idx = 0
    /\ log_messages = <<>>
    /\ has_leaf_node = TRUE
    /\ out_stream = <<>>
    /\ result = ""
    /\ passes = <<>>
    /\ crash = NoCrash
    /\ overflow = FALSE
    /\ style_class_attribute_map = {}
    /\ style_affected_nodes = <<>>
    /\ clip_path_affected_nodes = <<>>

\* parse(), line 235: svg_tree.flatten(); parse then returns the tree
flatten_pass ==
    /\ pc = "flatten_pass"
    /\ LET r == SvgTree_flatten(nodes, log_messages)
       IN  /\ nodes' = r.nodes
           /\ log_messages' = r.log
           /\ passes' = Append(passes, "flatten")
           /\ IF r.raised
              THEN pc' = "crashed" /\ crash' = Raise(r.exc, "flatten", MSG_STROKE)
              ELSE pc' = "parsed_tree" /\ crash' = crash
    /\ UNCHANGED <<placeholder, viewbox, w, h, root, doc, stack, id_map, ignored_ids,
                   pending_use_group_set, use_order, use_idx, has_leaf_node, out_stream,
                   result, overflow, tables>>

\* svg_tree.normalize() on the tree parse() returned
api_normalize ==
    /\ pc = "parsed_tree"
    /\ call.op = "normalize"
    /\ Len(passes) <= MaxCalls
    /\ nodes' = SvgTree_normalize(nodes)
    /\ passes' = Append(passes, "normalize")
    /\ UNCHANGED <<pc, placeholder, viewbox, w, h, root, doc, stack, id_map, ignored_ids,
                   pending_use_group_set, use_order, use_idx, log_messages, has_leaf_node,
                   out_stream, result, crash, overflow, tables>>

NextBake ==
    \/ flatten_pass
    \/ api_normalize

SpecBake == InitBake /\ [][NextBake]_vars

----------------------------------------------------------------------------
(* Presentation attributes of a resolved <use>: extract_use_node, lines    *)
(* 506-511, with deep_copy, add_child and fill_presentation_attributes     *)

\* A node with its element's presentation attributes (name and value, in
\* document order) and its vd_attributes_map
UsedNode(kind, attributes, vd, children) ==
    [kind |-> kind, attributes |-> attributes, vd |-> vd, children |-> children]

\* SvgNode.parse_transform, lines 104-111: the map of a new node holds the
\* presentation attributes of its element
RECURSIVE presentation_attributes_from(_, _, _)
presentation_attributes_from(vd, attributes, item_index) ==
    IF item_index > Len(attributes) THEN vd
    ELSE presentation_attributes_from(
             IF attributes[item_index][1] \in presentation_names
             THEN fill_presentation_attributes(vd, attributes[item_index][1],
                                               attributes[item_index][2])
             ELSE vd,
             attributes, item_index + 1)

\* SvgNode.fill_empty_attributes(parent_attributes_map) on a map
RECURSIVE SvgNode_fill_empty_attributes(_, _)
SvgNode_fill_empty_attributes(vd, parent_attributes_map) ==
    IF parent_attributes_map = <<>> THEN vd
    ELSE SvgNode_fill_empty_attributes(
             IF vd_has(vd, parent_attributes_map[1][1]) THEN vd
             ELSE vd_put(vd, parent_attributes_map[1][1], parent_attributes_map[1][2]),
             Tail(parent_attributes_map))

\* SvgGroupNode.add_child(child)
SvgGroupNode_add_child(ns, self, child) ==
    [ns EXCEPT ![self].children = Append(@, child),
               ![child].vd = SvgNode_fill_empty_attributes(@, ns[self].vd)]

\* deep_copy of a leaf or a group: the constructor reads the element again,
\* SvgNode.copy_from fills in what the map of the original holds besides,
\* and SvgGroupNode.copy_from adds a deep copy of every child
RECURSIVE SvgNode_deep_copy(_, _)
RECURSIVE SvgGroupNode_copy_from(_, _, _)
SvgNode_deep_copy(ns, n) ==
    LET new_instance == Len(ns) + 1
        vd == SvgNode_fill_empty_attributes(
                  presentation_attributes_from(<<>>, ns[n].attributes, 1), ns[n].vd)
        ns1 == Append(ns, UsedNode(ns[n].kind, ns[n].attributes, vd, <<>>))
    IN  [nodes |-> SvgGroupNode_copy_from(ns1, new_instance, ns[n].children),
         copy |-> new_instance]
SvgGroupNode_copy_from(ns, self, kids) ==
    IF kids = <<>> THEN ns
    ELSE LET c == SvgNode_deep_copy(ns, kids[1])
         IN  SvgGroupNode_copy_from(SvgGroupNode_add_child(c.nodes, self, c.copy), self,
                                    Tail(kids))

\* node.fill_presentation_attributes(name, value): SvgNode sets the value
\* in the map of the node; SvgGroupNode then hands it to every child whose
\* map does not hold the name
RECURSIVE SvgNode_fill_presentation_attributes(_, _, _, _)
RECURSIVE fill_children_presentation_attributes(_, _, _, _)
SvgNode_fill_presentation_attributes(ns, n, name, value) ==
    LET ns1 == [ns EXCEPT ![n].vd = fill_presentation_attributes(@, name, value)]
    IN  IF ns[n].kind = "group"
        THEN fill_children_presentation_attributes(ns1, ns1[n].children, name, value)
        ELSE ns1
fill_children_presentation_attributes(ns, kids, name, value) ==
    IF kids = <<>> THEN ns
    ELSE fill_children_presentation_attributes(
             IF ~vd_has(ns[kids[1]].vd, name)
             THEN SvgNode_fill_presentation_attributes(ns, kids[1], name, value)
             ELSE ns,
             Tail(kids), name, value)

\* node.fill_presentation_attributes for every item of a list, in order
RECURSIVE fill_all_presentation_attributes(_, _, _)
fill_all_presentation_attributes(ns, n, items) ==
    IF items = <<>> THEN ns
    ELSE fill_all_presentation_attributes(
             SvgNode_fill_presentation_attributes(ns, n, items[1][1], items[1][2]),
             n, Tail(items))

\* extract_use_node with the attributes of the use element merged onto the
\* copy by add_child only
use_attributes_merged_where_missing(ns, use_group_node, defined_node) ==
    LET ns1 == fill_all_presentation_attributes(ns, use_group_node,
                                                ns[use_group_node].attributes)
        c == SvgNode_deep_copy(ns1, defined_node)
    IN  SvgGroupNode_add_child(c.nodes, use_group_node, c.copy)

\* extract_use_node for a use element whose target is resolved: the loop
\* over the attributes (lines 479-490), then lines 506-510
use_attributes_merged(ns, use_group_node, defined_node) ==
    LET ns1 == fill_all_presentation_attributes(ns, use_group_node,
                                                ns[use_group_node].attributes)
        c == SvgNode_deep_copy(ns1, defined_node)
        ns2 == SvgGroupNode_add_child(c.nodes, use_group_node, c.copy)
        ns3 == fill_all_presentation_attributes(ns2, c.copy, ns2[use_group_node].vd)
    IN  [ns3 EXCEPT ![use_group_node].vd =
            SvgNode_fill_empty_attributes(@, ns3[use_group_node].vd)]

\* The presentation attributes of the elements
TargetAttrs ==
    {<<>>, <<<<"fill", "#ff0000">>>>, <<<<"stroke", "#00ff00">>>>,
     <<<<"fill", "#ff0000">>, <<"stroke-width", "2">>>>}
GroupAttrs == {<<>>, <<<<"fill", "#00ffff">>>>}
UseAttrs ==
    {<<>>, <<<<"fill", "#0000ff">>>>, <<<<"stroke", "#0000ff">>, <<"stroke-width", "3">>>>,
     <<<<"fill", "#0000ff">>, <<"fill-opacity", "0.5">>>>}

\* The tree after extraction of <svg><path id="t" A/><use href="#t" U/></svg>
\* (nodes 1, 2, 3) or <svg><g id="t" G><path A/></g><use href="#t" U/></svg>
\* (nodes 1, 2, 4, 3): constructors and add_child in document order
ExtractedUse(in_group, a, g, u) ==
    LET new(kind, attributes) ==
            UsedNode(kind, attributes, presentation_attributes_from(<<>>, attributes, 1), <<>>)
        svg == <<new("group", <<>>)>>
        target == SvgGroupNode_add_child(
                      Append(svg, IF in_group THEN new("group", g) ELSE new("leaf", a)), 1, 2)
        use == SvgGroupNode_add_child(Append(target, new("group", u)), 1, 3)
    IN  IF in_group THEN SvgGroupNode_add_child(Append(use, new("leaf", a)), 2, 4)
        ELSE use

InitUse ==
    /\ pc = "use_pass"
    /\ TreeInit
    /\ \E in_group \in BOOLEAN, a \in TargetAttrs, g \in GroupAttrs, u \in UseAttrs :
         /\ in_group \/ g = <<>>
         /\ call = [op |-> "extract_use_node",
                    args |-> ExtractedUse(in_group, a, g, u), ret |-> <<>>]

\* extract_use_node(svg_tree, node, element) for the pending use group,
\* called by the loop of parse; the group stays in the pending set, so the
\* loop calls it again.  call.ret holds the nodes after each call.
extract_use_node_resolved ==
    /\ pc = "use_pass"
    /\ call.op = "extract_use_node"
    /\ Len(call.ret) < MaxUseCopies
    /\ \E ns \in {IF call.ret = <<>> THEN call.args ELSE call.ret[Len(call.ret)]} :
         call' = [call EXCEPT !.ret = Append(@, use_attributes_merged(ns, 3, 2))]
    /\ UNCHANGED <<pc, tree_vars>>

SpecUse == InitUse /\ [][extract_use_node_resolved]_vars

----------------------------------------------------------------------------
(* The stroke width of a path from its element to the flatten pass         *)

\* The attributes of the <path> elements, and the local transforms of the
\* group and the path: those of LocalTransforms and a shear
StrokedPaths ==
    {<<<<"d", "M0,0L1,1">>, <<"stroke-width", "1">>>>,
     <<<<"d", "M0,0L1,1">>, <<"stroke-width", "1">>, <<"vector-effect", "non-scaling-stroke">>>>,
     <<<<"d", "M0,0L1,1">>, <<"style", "stroke-width:2;vector-effect:non-scaling-stroke">>>>,
     <<<<"d", "M0,0L1,1">>, <<"stroke", "#000000">>>>}
StrokeTransforms == LocalTransforms \cup {<<1, 0, 2, 1, 0, 0>>}

\* The tree root -> group while traverse_svg_and_extract is at the <path>
\* element inside the <g> element
InitStroke ==
    /\ pc = "extract_path"
    /\ placeholder = FALSE
    /\ viewbox = <<0, 0, 2, 2>>
    /\ w = 2
    /\ h = 2
    /\ root = 1
    /\ \E tg \in StrokeTransforms, tl \in StrokeTransforms, attributes \in StrokedPaths :
         /\ nodes = <<DrawnNode("group", IDENTITY, "", <<2>>),
                      DrawnNode("group", tg, "", <<>>)>>
         /\ call = [op |-> "extract_path",
                    args |-> [attributes |-> attributes, transform |-> tl], ret |-> ""]
    /\ doc = <<>>
    /\ stack = <<>>
    /\ id_map = {}
    /\ ignored_ids = {}
    /\ pending_use_group_set = {}
    /\ use_order = <<>>
    /\ use_idx = 0
    /\ log_messages = <<>>
    /\ has_leaf_node = FALSE
    /\ out_stream = <<>>
    /\ result = ""
    /\ passes = <<>>
    /\ crash = NoCrash
    /\ overflow = FALSE
    /\ style_class_attribute_map = {}
    /\ style_affected_nodes = <<>>
    /\ clip_path_affected_nodes = <<>>

\* traverse_svg_and_extract, lines 298-303, for the <path>: the constructor
\* reads the presentation attributes, add_child fills in those of the
\* group, extract_path_item reads the attributes; the end of the traversal
\* and the passes before flatten change nothing here.  call.ret keeps the
\* stroke width as extracted.
extract_stroked_path ==
    /\ pc = "extract_path"
    /\ call.op = "extract_path"
    /\ LET child == Len(nodes) + 1
           attributes == call.args.attributes
           made == [DrawnNode("leaf", call.args.transform, "", <<>>)
                       EXCEPT !.vd = presentation_attributes_from(<<>>, attributes, 1)]
           added == SvgGroupNode_add_child(Append(nodes, made), 2, child)
           st == path_attributes_from(
                     [vd |-> added[child].vd, path_data |-> "", table |-> <<>>],
                     attributes, 1, child)
       IN  /\ nodes' = [added EXCEPT ![child].vd = st.vd, ![child].path_data = st.path_data]
           /\ call' = [call EXCEPT !.ret = vd_get(st.vd, "stroke-width")]
    /\ has_leaf_node' = TRUE
    /\ pc' = "flatten_pass"
    /\ UNCHANGED <<placeholder, viewbox, w, h, root, doc, stack, id_map, ignored_ids,
                   pending_use_group_set, use_order, use_idx, log_messages, out_stream,
                   result, passes, crash, overflow, style_class_attribute_map,
                   style_affected_nodes, clip_path_affected_nodes>>

NextStroke ==
    \/ extract_stroked_path
    \/ flatten_pass

SpecStroke == InitStroke /\ [][NextStroke]_vars

----------------------------------------------------------------------------
(* Hidden groups: the walk of extract_all_items_as over the ancestors of a *)
(* leaf element, from the traversal to the serializer                      *)

MaxDepth == 2       \* elements between <svg> and the <path>

\* An element above the path: its tag, its style attribute and its display
\* attribute, "" for an attribute it does not have
Ancestors ==
    [tag : {"g", "svg", "a"}, style : {"", "display:none", "fill:#FF0000"},
     display : {"", "none"}]

\* The elements from the child of <svg> down to the parent of the <path>
AncestorChains == UNION {[1..n -> Ancestors] : n \in 0..MaxDepth}

\* The attributes of the <path>
HiddenPaths ==
    {<<<<"d", "M0,0L1,1">>>>, <<<<"d", "M0,0L1,1">>, <<"fill", "#0000FF">>>>}

\* A group node of the display tree
GroupNode(children) ==
    [kind |-> "group", children |-> children, path_data |-> "", vd |-> <<>>,
     fill_gradient_node |-> "", stroke_gradient_node |-> ""]

\* The while loop of extract_all_items_as: parent_node is the position of
\* the element in the chain, 0 for the <svg> element
RECURSIVE display_walk(_, _, _)
display_walk(dom, parent_node, st) ==
    IF ~(parent_node > 0 /\ dom[parent_node].tag = "g") THEN st
    ELSE LET node_attr == dom[parent_node].style
             style_content == IF node_attr # "" THEN st.style_content \o node_attr \o ";"
                              ELSE st.style_content
             st1 == [st EXCEPT !.style_content = style_content]
         IN  IF node_attr # "" /\ find(style_content, "display:none") # 0
             THEN [st1 EXCEPT !.nothing_to_display = TRUE]
             ELSE LET st2 == IF node_attr # "" THEN [st1 EXCEPT !.has_node_attr = TRUE]
                             ELSE st1
                  IN  IF dom[parent_node].display = "none"
                      THEN [st2 EXCEPT !.nothing_to_display = TRUE]
                      ELSE display_walk(dom, parent_node - 1, st2)

\* extract_all_items_as for a <path> whose parent is the last element of dom
extract_all_items_as_path(dom, vd, attributes, child) ==
    LET st == display_walk(dom, Len(dom),
                           [style_content |-> "", has_node_attr |-> FALSE,
                            nothing_to_display |-> FALSE])
        styled == IF st.has_node_attr /\ st.style_content # ""
                  THEN add_style_to_path(vd, st.style_content) ELSE vd
    IN  IF st.nothing_to_display THEN [vd |-> vd, path_data |-> "", table |-> <<>>]
        ELSE path_attributes_from([vd |-> styled, path_data |-> "", table |-> <<>>],
                                  attributes, 1, child)

\* traverse_svg_and_extract is at the first child of <svg>
InitDisplay ==
    /\ pc = "extract"
    /\ placeholder = FALSE
    /\ viewbox = <<0, 0, 2, 2>>
    /\ w = 2
    /\ h = 2
    /\ root = 1
    /\ nodes = <<GroupNode(<<>>)>>
    /\ doc = <<>>
    /\ stack = <<[group |-> 1, elem |-> 0]>>
    /\ id_map = {}
    /\ ignored_ids = {}
    /\ pending_use_group_set = {}
    /\ use_order = <<>>
    /\ use_idx = 0
    /\ log_messages = <<>>
    /\ has_leaf_node = FALSE
    /\ out_stream = <<>>
    /\ result = ""
    /\ passes = <<>>
    /\ crash = NoCrash
    /\ overflow = FALSE
    /\ style_class_attribute_map = {}
    /\ style_affected_nodes = <<>>
    /\ clip_path_affected_nodes = <<>>
    /\ \E chain \in AncestorChains, attributes \in HiddenPaths :
         call = [op |-> "traverse_chain",
                 args |-> [ancestors |-> chain, attributes |-> attributes], ret |-> <<>>]

\* traverse_svg_and_extract at an element above the path: a <g> becomes a
\* group of the tree, any other element is traversed into the same group,
\* after an error when it is one of the unsupported elements
traverse_ancestor ==
    /\ pc = "extract"
    /\ call.op = "traverse_chain"
    /\ Len(doc) < Len(call.args.ancestors)
    /\ LET e == Len(doc) + 1
           element == call.args.ancestors[e]
           frame == stack[Len(stack)]
           child == Len(nodes) + 1
           r == IF element.tag \in unsupported_svg_nodes
                THEN log_error(log_messages, "<" \o element.tag \o "> is not supported",
                               DomNode(e))
                ELSE [raised |-> FALSE, exc |-> "", log |-> log_messages]
       IN  /\ doc' = Append(doc, element)
           /\ IF element.tag = "g"
              THEN /\ nodes' = SvgGroupNode_add_child(Append(nodes, GroupNode(<<>>)),
                                                      frame.group, child)
                   /\ stack' = Append(stack, [group |-> child, elem |-> e])
                   /\ UNCHANGED <<log_messages, pc, crash>>
              ELSE /\ log_messages' = r.log
                   /\ nodes' = nodes
                   /\ IF r.raised
                      THEN /\ pc' = "crashed"
                           /\ crash' = Raise(r.exc, "traverse_svg_and_extract",
                                             "<" \o element.tag \o "> is not supported")
                           /\ stack' = stack
                      ELSE /\ stack' = Append(stack, [group |-> frame.group, elem |-> e])
                           /\ UNCHANGED <<pc, crash>>
    /\ UNCHANGED <<placeholder, viewbox, w, h, root, id_map, ignored_ids,
                   pending_use_group_set, use_order, use_idx, has_leaf_node, out_stream,
                   result, passes, overflow, style_class_attribute_map,
                   style_affected_nodes, clip_path_affected_nodes, call>>

\* traverse_svg_and_extract at the <path>, lines 298-303: the leaf is made
\* and added to the current group, then extract_all_items_as fills it in
traverse_path ==
    /\ pc = "extract"
    /\ call.op = "traverse_chain"
    /\ Len(doc) = Len(call.args.ancestors)
    /\ LET frame == stack[Len(stack)]
           child == Len(nodes) + 1
           made == PathNode("", presentation_attributes_from(<<>>, call.args.attributes, 1))
           added == SvgGroupNode_add_child(Append(nodes, made), frame.group, child)
           st == extract_all_items_as_path(doc, added[child].vd, call.args.attributes, child)
       IN  nodes' = [added EXCEPT ![child].vd = st.vd, ![child].path_data = st.path_data]
    /\ has_leaf_node' = TRUE
    /\ pc' = "extracted"
    /\ UNCHANGED <<placeholder, viewbox, w, h, root, doc, stack, id_map, ignored_ids,
                   pending_use_group_set, use_order, use_idx, log_messages, out_stream,
                   result, passes, crash, overflow, style_class_attribute_map,
                   style_affected_nodes, clip_path_affected_nodes, call>>

\* The serializer on the tree: root.write_xml
write_tree ==
    /\ pc = "extracted"
    /\ call.op = "traverse_chain"
    /\ out_stream' = SvgGroupNode_write_xml(nodes, {}, <<>>, nodes[root].children).out
    /\ pc' = "written"
    /\ UNCHANGED <<placeholder, viewbox, w, h, root, nodes, doc, stack, id_map, ignored_ids,
                   pending_use_group_set, use_order, use_idx, log_messages, has_leaf_node,
                   result, passes, crash, overflow, style_class_attribute_map,
                   style_affected_nodes, clip_path_affected_nodes, call>>

NextDisplay ==
    \/ traverse_ancestor
    \/ traverse_path
    \/ write_tree

SpecDisplay == InitDisplay /\ [][NextDisplay]_vars

----------------------------------------------------------------------------
(* Use resolution on a document with a <use> inside a group that another   *)
(* <use> refers to: parse() lines 214-221 after the traversal               *)

\* The documents <g id="a"><use id="b" href=inner/></g><T id="c"/>
\* <use id="d" href=outer/>, T a path or a group
NestedUseDocs ==
    {<<[Element("g", IdAt(1), NoStr, FALSE, FALSE) EXCEPT !.parent = 0],
       [Element("use", IdAt(2), inner, FALSE, FALSE) EXCEPT !.parent = 1],
       [Element(tag, IdAt(3), NoStr, FALSE, FALSE) EXCEPT !.parent = 0],
       [Element("use", IdAt(4), outer, FALSE, FALSE) EXCEPT !.parent = 0]>> :
        inner \in {NoStr, Ref(IdAt(1)), Ref(IdAt(3)), Ref(IdAt(4)), Ref(MissingId)},
        outer \in {Ref(IdAt(1)), Ref(IdAt(2)), Ref(IdAt(3))},
        tag \in {"path", "g"}}

\* The state in which traverse_svg_and_extract leaves the tree for such a
\* document, with the pending set in either order
InitNested ==
    /\ pc = "resolve_use"
    /\ placeholder = FALSE
    /\ viewbox = <<0, 0, 24, 24>>
    /\ w = 24
    /\ h = 24
    /\ root = 1
    /\ doc \in NestedUseDocs
    /\ nodes = <<[SvgGroupNode(0) EXCEPT !.children = <<2, 4, 5>>],
                 [SvgGroupNode(1) EXCEPT !.children = <<3>>],
                 SvgGroupNode(2),
                 IF doc[3].tag = "path" THEN SvgLeafNode(3) ELSE SvgGroupNode(3),
                 SvgGroupNode(4)>>
    /\ stack = <<>>
    /\ id_map = {<<IdAt(1), 2>>, <<IdAt(2), 3>>, <<IdAt(3), 4>>, <<IdAt(4), 5>>}
    /\ ignored_ids = {}
    /\ pending_use_group_set = {3, 5}
    /\ use_order \in Perms({3, 5})
    /\ use_idx = 0
    /\ log_messages = <<>>
    /\ has_leaf_node = (doc[3].tag = "path")
    /\ out_stream = <<>>
    /\ result = ""
    /\ passes = <<"extract">>
    /\ crash = NoCrash
    /\ overflow = FALSE
    /\ style_class_attribute_map = {}
    /\ style_affected_nodes = <<>>
    /\ clip_path_affected_nodes = <<>>
    /\ call = NoCall

NextNested ==
    \/ use_loop_test
    \/ extract_use_node_call
    \/ report_cycles_call

SpecNested == InitNested /\ [][NextNested]_vars

----------------------------------------------------------------------------
(* The claims *)

IsPrefix(s, t) == Len(s) <= Len(t) /\ SubSeq(t, 1, Len(s)) = s

Count(lg, message) == Cardinality({i \in DOMAIN lg : lg[i].message = message})

NoErrorLogged == \A i \in DOMAIN log_messages : log_messages[i].level # ERROR

\* The placeholder nodes of the <use> elements of the document
UsePlaceholders ==
    {n \in DOMAIN nodes : nodes[n].elem # 0 /\ doc[nodes[n].elem].tag = "use"
                          /\ n <= 1 + Len(doc)}

\* C1: the use-resolution loop terminates for every document; every run
\* reaches the end of parse_svg_to_xml (or ends in an exception).
C1_UseLoopTerminates == <>Terminated

\* C2: a <use> whose target id is neither registered nor ignored logs the
\* error "Referenced id not found" and the run goes on without crashing:
\* no run ends in an exception raised while this error is logged, and a
\* finished run holds one such error or none.
C2_MissingReferenceLogged ==
    /\ ~(pc = "crashed" /\ crash.site = "extract_use_node")
    /\ (pc = "done" => Count(log_messages, MSG_NOT_FOUND) <= 1)

\* The document <use id="a" href="#b"/><use id="b" href="#c"/><use id="c" href="#a"/>
ThreeCycle ==
    /\ Len(doc) = 3
    /\ \A i \in 1..3 : doc[i].tag = "use" /\ doc[i].id = IdAt(i) /\ doc[i].parent = 0
    /\ doc[1].href = Ref(IdAt(2))
    /\ doc[2].href = Ref(IdAt(3))
    /\ doc[3].href = Ref(IdAt(1))

\* C3: for the three-node cycle a -> b -> c -> a the run does not crash, and
\* once use resolution is over the log holds exactly one error, which names
\* the chain "a -> b -> c -> a".
C3_CycleReported ==
    ThreeCycle =>
        /\ pc # "crashed"
        /\ (pc \in {"apply_style", "substitute_clip", "flatten", "validate", "parsed",
                    "message", "done"}
               => log_messages = <<LogMessage(ERROR, 1, MSG_CIRCULAR \o "a -> b -> c -> a")>>)

\* C4: a <use> placeholder that has received its copy is no longer pending,
\* and a placeholder never holds more than one copy.
C4_ResolvedLeavesPending ==
    \A n \in UsePlaceholders :
        /\ Len(nodes[n].children) <= 1
        /\ (Len(nodes[n].children) = 1 => n \notin pending_use_group_set)

\* C5: a run on a document with a drawable leaf that logs no error does not
\* crash while it logs a warning, and when it is done the sink holds the
\* document and the returned diagnostic string is empty.
C5_SuccessPopulatesSink ==
    /\ ~(pc = "crashed" /\ crash.site = "flatten")
    /\ (pc = "done" /\ has_leaf_node /\ NoErrorLogged
           => out_stream # <<>> /\ result = "")

\* C6: get_error_message does not fail on any log, a log of both levels
\* included, and returns a non-empty report for a non-empty log.
C6_ReportNeverFails ==
    /\ ~(pc = "crashed" /\ crash.site = "get_error_message")
    /\ (pc = "done" /\ log_messages # <<>> => result # "")

\* The passes of a run, in the order of the pipeline
PassOrder ==
    <<"extract", "resolve_use", "apply_style", "substitute_clip", "flatten", "validate",
      "serialize">>

\* C7: the passes of a run start in the order extract, resolve-use,
\* apply-style, substitute-clip, flatten, validate, serialize, each at most
\* once and none before the one ahead of it is over: while the traversal or
\* the use loop is still running, no later pass has started.
C7_PassOrder ==
    /\ IsPrefix(passes, PassOrder)
    /\ (pc = "extract" => passes = <<"extract">>)
    /\ (pc \in {"use_pass", "report_cycles"} => passes = <<"extract", "resolve_use">>)
    /\ (pc = "substitute_clip" => passes = SubSeq(PassOrder, 1, 3))
    /\ (pc = "flatten" => passes = SubSeq(PassOrder, 1, 4))

\* C7, witness: a finished run in which all seven passes have run
C7_AllPassesRan == pc = "done" /\ passes = PassOrder

\* C8: when the root element yields no viewBox, the run logs the error
\* 'Missing "viewBox" in <svg> element' and stops without crashing: no root
\* node, no pass, no output.
C8_MissingViewBoxStops ==
    (viewbox = <<>> /\ pc \notin {"parse", "dimension"} /\ crash.exc # "ValueError")
        => /\ pc # "crashed"
           /\ Count(log_messages, MSG_VIEWBOX) = 1
           /\ root = NoNode
           /\ passes = <<>>
           /\ out_stream = <<>>

\* C9: when the source is not well-formed XML, the run on the placeholder
\* document does not crash, and it ends with a non-empty diagnostic string
\* and an empty sink.
C9_MalformedXmlReported ==
    placeholder =>
        /\ pc # "crashed"
        /\ (pc = "done" => result # "" /\ out_stream = <<>>)

\* The elements read so far that carry information and whose tag is in the
\* unsupported set and is no drawable tag
UnsupportedElements ==
    {e \in DOMAIN doc : /\ ~doc[e].bare
                        /\ doc[e].tag \in unsupported_svg_nodes \ LeafTags}

\* C10: every element with an unsupported tag logs exactly one
\* "<tag> is not supported" error, and the extraction goes on: the run does
\* not crash in the traversal.
C10_UnsupportedLogged ==
    /\ ~(pc = "crashed" /\ crash.site = "traverse_svg_and_extract")
    /\ Count(log_messages, MSG_UNSUPPORTED) = Cardinality(UnsupportedElements)

\* A transform applied to a point: (a11 x + a12 y + dx, a21 x + a22 y + dy)
transform_point(t, pt) ==
    <<t[1] * pt[1] + t[3] * pt[2] + t[5], t[2] * pt[1] + t[4] * pt[2] + t[6]>>

Points == {<<0, 0>>, <<1, 0>>, <<0, 1>>, <<2, -1>>}

\* C17: the identity is a two-sided unit of concatenate_transform, the
\* function is associative, and the transform it returns for (t1, t2) maps
\* every point to t1 applied to (t2 applied to the point).
C17_ComposeLaws ==
    (pc = "returned" /\ call.op = "concatenate_transform") =>
        /\ call.ret.id_t = call.args[1]
        /\ call.ret.t_id = call.args[1]
        /\ call.ret.tu_v = call.ret.t_uv
        /\ \A pt \in Points :
             transform_point(call.ret.t_u, pt)
                 = transform_point(call.args[1], transform_point(call.args[2], pt))

\* C17, witness: a call on two transforms that do not commute, neither the
\* identity, has returned
C17_NonCommutingComposed ==
    /\ pc = "returned"
    /\ call.op = "concatenate_transform"
    /\ call.args[1] # IDENTITY
    /\ call.args[2] # IDENTITY
    /\ call.ret.t_u # call.ret.u_t

\* The largest offset recorded before stop i
PreviousGreatest(stops, i) ==
    IF i = 1 THEN 0
    ELSE CHOOSE x \in {stops[k].offset : k \in 1..(i - 1)} :
             \A k \in 1..(i - 1) : stops[k].offset <= x

\* The stop offsets 0.5, 0.3, 0.9
ExampleStops ==
    <<[given |-> TRUE, valid |-> TRUE, percent |-> FALSE, number |-> 50],
      [given |-> TRUE, valid |-> TRUE, percent |-> TRUE, number |-> 30],
      [given |-> TRUE, valid |-> TRUE, percent |-> FALSE, number |-> 90]>>

\* C16: the recorded stop offsets of a gradient lie in [0, 1] and do not
\* decrease; the offset of a stop is the larger of its value clamped to
\* [0, 1] and the largest offset before it; 0.5, 0.3, 0.9 are recorded as
\* 0.5, 0.5, 0.9.
C16_StopOffsetsMonotone ==
    call.op = "extract_gradient_node" =>
        LET stops == call.ret.stops
        IN  /\ \A i \in DOMAIN stops :
                 /\ stops[i].offset >= 0 /\ stops[i].offset <= 100
                 /\ i > 1 => stops[i - 1].offset <= stops[i].offset
                 /\ call.args[i].given =>
                       stops[i].offset
                           = Max(Min(100, Max(call.args[i].number, 0)),
                                 PreviousGreatest(stops, i))
            /\ (pc = "returned" /\ call.args = ExampleStops
                   => /\ <<stops[1].offset, stops[2].offset, stops[3].offset>> = <<50, 50, 90>>
                      /\ <<stops[1].text, stops[2].text, stops[3].text>> = <<"0.5", "0.5", "0.9">>)

\* C16, witness: the gradient with the offsets 0.5, 0.3, 0.9 has been read
C16_ExampleRead ==
    /\ pc = "returned"
    /\ call.op = "extract_gradient_node"
    /\ call.args = ExampleStops
    /\ Len(call.ret.stops) = 3

\* C19: validation adds the error "No vector content found" exactly when
\* the tree has no leaf and no error has been logged before, warnings or
\* not; else it leaves the log as it is.
C19_NoContentReported ==
    call.op = "validate" =>
        LET before == call.args.log_messages
            no_error == \A i \in DOMAIN before : before[i].level # ERROR
        IN  call.ret = IF ~call.args.has_leaf_node /\ no_error
                       THEN Append(before, LogMessage(ERROR, 0, MSG_NO_CONTENT))
                       ELSE before

\* C14: a second call of SvgTree.flatten leaves every node as the first
\* call left it: stacked transform and stroke width are not applied twice.
C14_FlattenIdempotent ==
    (call.op = "flatten" /\ pc # "crashed" /\ Len(call.ret) >= 2)
        => call.ret[2] = call.ret[1]

\* C15: writing the same flattened tree twice gives the same text both
\* times, also for leaves with gradient references and opacity attributes.
C15_WriteRepeatable ==
    (call.op = "write_xml" /\ Len(call.ret) >= 2) => call.ret[2] = call.ret[1]

\* The numeric attributes of a shape whose value is no number
InvalidNumbers(item) ==
    SelectSeq(item.attributes,
              LAMBDA a : /\ a[1] \in {"x", "y", "width", "height", "rx", "ry", "cx", "cy", "r"}
                         /\ parse_coordinate_or_length(a[2], 0).raised)

RECURSIVE ExpectedErrors(_)
ExpectedErrors(items) ==
    IF items = <<>> THEN <<>>
    ELSE LET bad == InvalidNumbers(items[1])
         IN  [i \in DOMAIN bad |-> get_formatted_message(
                  LogMessage(ERROR, 1, InvalidAttribute(bad[i][1], bad[i][2])))]
             \o ExpectedErrors(Tail(items))

\* C11: a shape attribute that is no number logs one error naming the
\* attribute and its value; the run does not abort, the element's other
\* attributes (here fill) and the following sibling are still processed.
C11_InvalidNumberSkipped ==
    call.op = "traverse_svg_and_extract" =>
        /\ pc # "crashed"
        /\ pc = "extracted" =>
            /\ Len(nodes) = Len(call.args)
            /\ [i \in DOMAIN log_messages |-> get_formatted_message(log_messages[i])]
                   = ExpectedErrors(call.args)
            /\ \A i \in DOMAIN nodes :
                 \A j \in DOMAIN call.args[i].attributes :
                    call.args[i].attributes[j][1] = "fill"
                        => vd_get(nodes[i].vd, "fill") = call.args[i].attributes[j][2]

\* The example of C18 has been extracted
ExampleRectAt(i) ==
    /\ call.op = "traverse_svg_and_extract"
    /\ i \in DOMAIN call.args
    /\ i <= call.ret
    /\ call.args[i] = ExampleRect

\* C18 as stated: rect(10,10,100,50) lowers to M10,10H110V60H10Z
C18_RectAbsolutePath ==
    \A i \in 1..2 : ExampleRectAt(i) => nodes[i].path_data = "M10,10H110V60H10Z"

\* C18, amended: a plain rect lowers to an absolute move followed by
\* relative horizontal and vertical commands and a relative close:
\* rect(10,10,100,50) yields exactly M10,10h100v50h-100z.
C18_RectRelativePath ==
    \A i \in 1..2 : ExampleRectAt(i) => nodes[i].path_data = "M10,10h100v50h-100z"

C18_ExampleRectExtracted == ExampleRectAt(2) /\ nodes[2].path_data # ""

\* C12: the rule ".cls{fill:#ff0000;}" is registered under ".cls", and after
\* the apply-style pass a leaf with class="cls" has fill #ff0000, also when
\* a presentation attribute had set another fill before.
C12_ClassRuleApplied ==
    (/\ call.op = "apply_style"
     /\ pc = "styled"
     /\ call.args.style_data = ".cls{fill:#ff0000;}"
     /\ \E j \in DOMAIN call.args.attributes : call.args.attributes[j] = <<"class", "cls">>)
        => /\ get_style_class_attr(style_class_attribute_map, ".cls") # ""
           /\ vd_get(nodes[1].vd, "fill") = "#ff0000"

\* The nodes below n: through child lists and lists of affected nodes
RECURSIVE Below(_, _, _)
Below(ns, n, depth) ==
    IF depth = 0 THEN {n}
    ELSE {n} \cup UNION {Below(ns, ns[n].children[i], depth - 1) : i \in DOMAIN ns[n].children}
             \cup UNION {Below(ns, ns[n].affected[i], depth - 1) : i \in DOMAIN ns[n].affected}

\* The mask copies that the substitution has placed in the tree
MaskCopies == {n \in Below(nodes, root, 6) : nodes[n].kind = "clip" /\ nodes[n].tag = "mask"}

\* C13: validation logs the "Semitransparent mask" error for the mask
\* copies in the tree whose fill is not pure white, at any depth, and for
\* no other; it does not fail.
C13_MaskValidated ==
    (call.op = "handle_clip_path" /\ pc \in {"validated", "crashed"} /\ crash.exc # "ValueError")
        => /\ pc = "validated"
           /\ Count(log_messages, MSG_MASK)
                  = Cardinality({n \in MaskCopies : ~is_white_fill(nodes[n])})

\* The places of node n in child lists
Owners(n) ==
    {<<g, i>> \in (DOMAIN nodes) \X (1..Len(nodes)) :
        i \in DOMAIN nodes[g].children /\ nodes[g].children[i] = n}

\* C20: no node is in the child lists of two groups or twice in one child
\* list, during and after use expansion and clip substitution.
C20_SingleOwner ==
    call.op = "handle_clip_path" => \A n \in DOMAIN nodes : Cardinality(Owners(n)) <= 1

\* Two copies of the definition k1 have replaced the group and the leaf that
\* referred to it, in the same child list
C20_TwoCopiesInserted ==
    /\ call.op = "handle_clip_path"
    /\ pc = "validate"
    /\ Len(nodes[root].children) = 2
    /\ \A i \in 1..2 : /\ nodes[nodes[root].children[i]].kind = "clip"
                       /\ nodes[root].children[i] > 9
                       /\ nodes[nodes[root].children[i]].affected # <<>>

\* The target id of the <use> element of placeholder n, and whether the
\* element that carries this id was skipped (its id is in the ignored set
\* and no node is registered under it)
TargetOf(n) == get_id_from_reference(doc[nodes[n].elem].href)
TargetIgnored(n) ==
    /\ doc[nodes[n].elem].href # NoStr
    /\ TargetOf(n) \in ignored_ids
    /\ get_svg_node_from_id(id_map, TargetOf(n)) = NoNode

\* C21: a <use> whose target id is in the ignored-id set logs no
\* "Referenced id not found" error: extract_use_node reports this error (it
\* logs it, or fails while it logs it) only for a use element whose target
\* id is neither in the id map nor in the ignored-id set, and the log holds
\* no more such errors than the document has use elements with such a target.
C21_IgnoredReferenceSilent ==
    /\ (pc = "crashed" /\ crash.site = "extract_use_node"
           => LET n == use_order[use_idx]
              IN  /\ doc[nodes[n].elem].href # NoStr
                  /\ TargetOf(n) \notin ignored_ids
                  /\ get_svg_node_from_id(id_map, TargetOf(n)) = NoNode)
    /\ (pc \notin {"parse", "dimension", "extract"}
           => Count(log_messages, MSG_NOT_FOUND)
                 <= Cardinality({n \in UsePlaceholders :
                                    /\ doc[nodes[n].elem].href # NoStr
                                    /\ TargetOf(n) \notin ignored_ids
                                    /\ get_svg_node_from_id(id_map, TargetOf(n)) = NoNode}))

\* A call of extract_use_node for a use element whose target was skipped
\* has returned: nothing was logged and the run goes on
C21_IgnoredTargetProcessed ==
    /\ pc = "resolve_use"
    /\ use_idx = 0
    /\ "resolve_use" \in {passes[i] : i \in DOMAIN passes}
    /\ use_order # <<>>
    /\ TargetIgnored(use_order[1])
    /\ Count(log_messages, MSG_NOT_FOUND) = 0

\* The keywords and numbers of arguments for which parse_one_transform is
\* to return a transform
AllowedFunction(type, count) ==
    \/ type = "matrix" /\ count = 6
    \/ type \in {"translate", "scale"} /\ count \in {1, 2}
    \/ type = "rotate" /\ count \in {1, 3}
    \/ type \in {"skewX", "skewY"} /\ count = 1

\* C22: parsing a transform attribute never aborts the run, whatever the
\* keyword and the number of arguments; parse_one_transform returns a
\* transform for a function with numeric arguments exactly when its keyword
\* and its number of arguments are allowed; and an attribute none of whose
\* functions is allowed leaves the local transform the identity.
C22_TransformParsed ==
    /\ pc # "crashed"
    /\ (pc = "returned" =>
          /\ \A i \in DOMAIN call.ret :
                ~get_numbers(call.ret[i].data).none =>
                   (~call.ret[i].none
                       <=> AllowedFunction(call.ret[i].type,
                                           Len(get_numbers(call.ret[i].data).numbers)))
          /\ ((\A i \in DOMAIN call.ret : call.ret[i].none)
                 => nodes[1].local_transform = IDENTITY))

\* The leaves of the tree with path data, the transform composed of the
\* local transforms on the way from the root to the leaf (parent before
\* local), and the path data of the source mapped by a transform
DrawnLeaves == {n \in DOMAIN nodes : nodes[n].kind = "leaf" /\ nodes[n].path_data # ""}
ComposedTransform ==
    concatenate_transform(
        concatenate_transform(nodes[1].local_transform, nodes[2].local_transform),
        nodes[3].local_transform)
MappedPath(t) ==
    path_data_of([i \in DOMAIN call.args |-> transform_point(t, call.args[i])])

ClipEntry == clip_path_affected_nodes[call.ret + 1]
ClipDefinition == get_svg_node_from_id(id_map, get_clip_path_name(ClipEntry[3]))
ClipSubstitutes ==
    /\ pc = "substitute_clip"
    /\ call.ret < Len(clip_path_affected_nodes)
    /\ ClipDefinition # NoNode
    /\ nodes[ClipDefinition].kind = "clip"

\* C24: a successful substitution changes the child list of the parent in
\* exactly one slot: a new clip node, a deep copy of the definition, stands
\* at the index of the referencing node; the length of the list, its other
\* entries and the child lists of the other nodes are as before; the
\* referencing node is the only affected node of the copy; and the
\* definition in the id map still has no affected node.
C24_SubstitutionInPlace ==
    [][(ClipSubstitutes /\ handle_clip_path_entry) =>
          LET child == ClipEntry[1]
              parent == ClipEntry[2]
              before == nodes[parent].children
              after == nodes'[parent].children
              index == index_of(before, child)
              clip_copy == after[index]
          IN  /\ pc' # "crashed"
              /\ index # 0
              /\ Len(after) = Len(before)
              /\ \A i \in DOMAIN before : i # index => after[i] = before[i]
              /\ clip_copy > Len(nodes)
              /\ clip_copy \in DOMAIN nodes'
              /\ nodes'[clip_copy].kind = "clip"
              /\ nodes'[clip_copy].tag = nodes[ClipDefinition].tag
              /\ Len(nodes'[clip_copy].children) = Len(nodes[ClipDefinition].children)
              /\ \A i \in DOMAIN nodes'[clip_copy].children :
                    nodes'[clip_copy].children[i] > Len(nodes)
              /\ nodes'[clip_copy].affected = <<child>>
              /\ nodes'[ClipDefinition].affected = <<>>
              /\ \A n \in DOMAIN nodes : n # parent => nodes'[n].children = nodes[n].children
      ]_vars

\* The leaf "l2", second child of the root, referred to the clip "k1" and
\* has been replaced: a copy stands at its index with the leaf as affected
\* node, and the group before it is still in its place
C24_LeafReplacedByCopy ==
    /\ pc = "substitute_clip"
    /\ call.ret = 1
    /\ clip_path_affected_nodes = <<<<8, 1, "url(#k1)">>>>
    /\ nodes[1].children[1] = 6
    /\ nodes[1].children[2] > Len(call.args)
    /\ nodes[nodes[1].children[2]].affected = <<8>>

\* The copies of the target that the calls of extract_use_node have added
\* to the use group, in the tree ns
UseCopies(ns) == {ns[3].children[i] : i \in DOMAIN ns[3].children}

\* C25: the attributes of the use element reach the copy of the target only
\* for the names the copy lacks: every presentation attribute the target
\* element defines itself has the target's value in the copy.
C25_TargetAttributesKept ==
    call.op = "extract_use_node" =>
        \A k \in DOMAIN call.ret :
            \A copy \in UseCopies(call.ret[k]) :
                \A i \in DOMAIN call.args[2].attributes :
                    vd_get(call.ret[k][copy].vd, call.args[2].attributes[i][1])
                        = call.args[2].attributes[i][2]

\* The <path> element asks for a stroke that does not scale: by its
\* vector-effect attribute or in its inline style
RequestsNonScalingStroke ==
    \E i \in DOMAIN call.args.attributes :
        \/ call.args.attributes[i] = <<"vector-effect", "non-scaling-stroke">>
        \/ /\ call.args.attributes[i][1] = "style"
           /\ find(call.args.attributes[i][2], "vector-effect:non-scaling-stroke") # 0

\* C26: after the flatten pass the stroke width of a leaf is the extracted
\* one when the element requests vector-effect non-scaling-stroke or the
\* composed transform has a shear component, and else the extracted width
\* times the square root of the absolute determinant.
C26_StrokeWidthScaling ==
    (call.op = "extract_path" /\ passes = <<"flatten">> /\ call.ret # "") =>
        LET t == nodes[3].stacked_transform
            determinant == t[1] * t[4] - t[2] * t[3]
            width == vd_get(nodes[3].vd, "stroke-width")
        IN  IF RequestsNonScalingStroke \/ t[2] # 0 \/ t[3] # 0 \/ determinant = 0
            THEN width = call.ret
            ELSE width = format_float_value(float_of(call.ret).value * sqrt_abs(determinant))

\* The inline style of a shape element, "" when it has none
ShapeStyle(item) ==
    LET at == {j \in DOMAIN item.attributes : item.attributes[j][1] = "style"}
    IN  IF at = {} THEN "" ELSE item.attributes[CHOOSE j \in at : TRUE][2]

\* The style has the declaration opacity:0, closed by a semicolon or not
DeclaresOpacityZero(style) ==
    \E k \in DOMAIN split(style, ";") :
        LET name_value == split(split(style, ";")[k], ":")
        IN  /\ Len(name_value) = 2
            /\ strip(name_value[1]) = "opacity"
            /\ strip(name_value[2]) = "0"

\* A numeric attribute of the shape is the NaN
HasNaNAttribute(item) ==
    \E j \in DOMAIN item.attributes :
        /\ item.attributes[j][1] \in {"x", "y", "width", "height", "cx", "cy", "r", "rx", "ry"}
        /\ item.attributes[j][2] \in {"NaN", "nan"}

\* The element without its style attribute
WithoutStyle(item) ==
    [item EXCEPT !.attributes = SelectSeq(@, LAMBDA p : p[1] # "style")]

\* C28: a shape gets no path data, and no error is logged, when a numeric
\* attribute is the NaN or its inline style declares opacity:0, with or
\* without the closing semicolon; a style that does not declare opacity:0
\* (fill-opacity:0 for one) leaves the path the shape has without the style.
C28_TransparentOrNaNShapeDropped ==
    call.op = "traverse_svg_and_extract" =>
        \A i \in 1..call.ret :
            LET item == call.args[i]
            IN  /\ (HasNaNAttribute(item) \/ DeclaresOpacityZero(ShapeStyle(item))) =>
                       /\ nodes[i].path_data = ""
                       /\ log_messages = <<>>
                /\ ~DeclaresOpacityZero(ShapeStyle(item)) =>
                       nodes[i].path_data
                           = extract_shape_item(<<>>, WithoutStyle(item), i, viewbox).path_data

\* The <g> elements above the path that are hidden, by the style or by the
\* display attribute
HiddenGroups ==
    {i \in DOMAIN doc : /\ doc[i].tag = "g"
                        /\ \/ find(doc[i].style, "display:none") # 0
                           \/ doc[i].display = "none"}

DEFAULT_FILL == "android:fillColor=\"#FF000000\""

HasDefaultFill(out) == \E i \in DOMAIN out : out[i] = DEFAULT_FILL

\* The value is none or the fully transparent colour; "" is no attribute
NoPaint(value) == value \in {"", "none", "#00000000"}

\* C29 as stated: a leaf that is written has the default fill exactly when
\* it has no fill attribute, no fill gradient and no stroke; nothing is
\* written for a leaf whose path data is blank or whose fill and stroke
\* are both none or fully transparent.
C29_DefaultFillUnlessStroked ==
    [][api_write_xml =>
        LET node == call.args[2]
            out == call.ret'[Len(call.ret')]
        IN  /\ out # <<>> =>
                   (HasDefaultFill(out) <=> /\ ~vd_has(node.vd, "fill")
                                            /\ node.fill_gradient_node = ""
                                            /\ ~vd_has(node.vd, "stroke"))
            /\ (\/ is_blank(node.path_data)
                \/ /\ vd_has(node.vd, "fill")
                   /\ NoPaint(vd_get(node.vd, "fill"))
                   /\ NoPaint(vd_get(node.vd, "stroke"))) => out = <<>>]_vars

\* C29, amended: a leaf that is written has the default fill exactly when
\* it has no fill attribute and no fill gradient, with or without a stroke;
\* nothing is written exactly when the path data is blank, or the fill is
\* none or #00000000 and the stroke is absent or none.
C29_DefaultFillWithoutFill ==
    [][api_write_xml =>
        LET node == call.args[2]
            out == call.ret'[Len(call.ret')]
        IN  /\ out # <<>> =>
                   (HasDefaultFill(out) <=> /\ ~vd_has(node.vd, "fill")
                                            /\ node.fill_gradient_node = "")
            /\ out = <<>> <=>
                   \/ is_blank(node.path_data)
                   \/ /\ vd_get(node.vd, "fill") \in {"none", "#00000000"}
                      /\ vd_get(node.vd, "stroke") \in {"", "none"}]_vars

\* A stroked leaf without a fill was written with the default fill
C29_StrokedLeafFilled ==
    /\ call.op = "write_xml"
    /\ Len(call.ret) = 1
    /\ vd_get(call.args[2].vd, "stroke") = "#0000FF"
    /\ ~vd_has(call.args[2].vd, "fill")
    /\ HasDefaultFill(call.ret[1])

\* The groups that stand for a <use> element, the copies deep_copy has made
\* of them included, and the nodes that are a child of another node
UseGroups == {n \in DOMAIN nodes : nodes[n].elem # 0 /\ doc[nodes[n].elem].tag = "use"}
Attached(n) == \E g \in DOMAIN nodes : \E i \in DOMAIN nodes[g].children :
                   nodes[g].children[i] = n

\* The target of the <use> element of group n is registered in the id map
TargetExists(n) ==
    /\ doc[nodes[n].elem].href # NoStr
    /\ get_svg_node_from_id(id_map, TargetOf(n)) # NoNode

====
